---- MODULE Spec2Model ----
(***************************************************************************)
(* The API facade of one Pilosa node (api.go), the Index field registry    *)
(* (index.go) and the parts of Holder, Field, Cluster and Broadcaster the  *)
(* API calls into.  Every API call runs on its own goroutine: a call is a  *)
(* thread that first passes the state gate (validate), then performs its   *)
(* local step and, for the schema mutations, its SendSync.                  *)
(***************************************************************************)
EXTENDS Integers, Sequences, FiniteSets, TLC

\* ------------------------------------------------------------------ bounds
\* Goroutines serving API calls at the same time.
NumThreads == 2
\* API calls started in one behaviour.
MaxCalls == 3
\* Slices are 0..MaxSliceNo.
MaxSliceNo == 1
\* Cluster members are the nodes 1..NumNodes; the local node is node 1.
NumNodes == 2

Threads == 1..NumThreads
Slices == 0..MaxSliceNo
NodeIDs == 1..NumNodes

\* --------------------------------------------------------- cluster states
ClusterStateStarting == "STARTING"
ClusterStateNormal == "NORMAL"
ClusterStateResizing == "RESIZING"
ClusterStates == {ClusterStateStarting, ClusterStateNormal, ClusterStateResizing}

resizeJobStateRunning == "RUNNING"
resizeJobStateDone == "DONE"
resizeJobStateAborted == "ABORTED"

\* ------------------------------------------------------------ api methods
apiClusterMessage == "ClusterMessage"
apiCreateField == "CreateField"
apiCreateIndex == "CreateIndex"
apiDeleteField == "DeleteField"
apiDeleteIndex == "DeleteIndex"
apiDeleteView == "DeleteView"
apiExportCSV == "ExportCSV"
apiFragmentBlockData == "FragmentBlockData"
apiFragmentBlocks == "FragmentBlocks"
apiFieldAttrDiff == "FieldAttrDiff"
apiImport == "Import"
apiImportValue == "ImportValue"
apiIndex == "Index"
apiIndexAttrDiff == "IndexAttrDiff"
apiMarshalFragment == "MarshalFragment"
apiQuery == "Query"
apiRecalculateCaches == "RecalculateCaches"
apiRemoveNode == "RemoveNode"
apiResizeAbort == "ResizeAbort"
apiSetCoordinator == "SetCoordinator"
apiSliceNodes == "SliceNodes"
apiUnmarshalFragment == "UnmarshalFragment"
apiViews == "Views"

apiMethods ==
    { apiClusterMessage, apiCreateField, apiCreateIndex, apiDeleteField,
      apiDeleteIndex, apiDeleteView, apiExportCSV, apiFragmentBlockData,
      apiFragmentBlocks, apiFieldAttrDiff, apiImport, apiImportValue, apiIndex,
      apiIndexAttrDiff, apiMarshalFragment, apiQuery, apiRecalculateCaches,
      apiRemoveNode, apiResizeAbort, apiSetCoordinator, apiSliceNodes,
      apiUnmarshalFragment, apiViews }

methodsCommon == {apiClusterMessage, apiMarshalFragment, apiSetCoordinator}

methodsResizing == {apiResizeAbort}

methodsNormal ==
    { apiCreateField, apiCreateIndex, apiDeleteField, apiDeleteIndex,
      apiDeleteView, apiExportCSV, apiFragmentBlockData, apiFragmentBlocks,
      apiFieldAttrDiff, apiImport, apiImportValue, apiIndex, apiIndexAttrDiff,
      apiQuery, apiRecalculateCaches, apiRemoveNode, apiSliceNodes,
      apiUnmarshalFragment, apiViews }

appendMap(a, b) == a \cup b

\* A gate that also lets the normal set through while the cluster resizes.
validAPIMethodsOpenWhileResizing ==
    [ s \in ClusterStates |->
        IF s = ClusterStateStarting THEN methodsCommon
        ELSE appendMap(methodsCommon, appendMap(methodsNormal, methodsResizing)) ]

validAPIMethods ==
    [ s \in ClusterStates |->
        CASE s = ClusterStateStarting -> methodsCommon
          [] s = ClusterStateNormal -> appendMap(methodsCommon, methodsNormal)
          [] s = ClusterStateResizing -> appendMap(methodsCommon, methodsResizing) ]

\* ----------------------------------------------------------------- errors
Nil == "nil"
ErrMethodNotAllowed == "ApiMethodNotAllowedError"
ErrIndexNotFound == "ErrIndexNotFound"
ErrFieldNotFound == "ErrFieldNotFound"
ErrFragmentNotFound == "ErrFragmentNotFound"
ErrClusterDoesNotOwnSlice == "ErrClusterDoesNotOwnSlice"
ErrIndexExists == "ErrIndexExists"
ErrFieldExists == "ErrFieldExists"
ErrName == "ErrName"
ErrFieldNameRequired == "frame name required"
ErrInvalidCacheType == "ErrInvalidCacheType"
ErrInvalidOptions == "validating options"
ErrInvalidView == "ErrInvalidView"
ErrNodeIDNotExists == "ErrNodeIDNotExists"
ErrResizeNotRunning == "ErrResizeNotRunning"
ErrInitializing == "initializing"
ErrOpening == "opening"
ErrApplyingOptions == "applying options"
ErrSavingMeta == "saving meta"
ErrClosing == "closing"
ErrRemovingDirectory == "removing directory"
ErrDeletingView == "deleting view"
ErrReadingFragment == "reading fragment"
ErrImporting == "importing"
ErrBadRequest == "BadRequestError"
ErrExecuting == "executing"
ErrUnmarshaling == "unmarshaling message"
ErrNodeLeave == "calling node leave"
ErrSend == "sending message"

\* validate(f) as a function of the state it reads.
validateIn(state, f) ==
    IF state \in DOMAIN validAPIMethods /\ f \in validAPIMethods[state]
    THEN Nil ELSE ErrMethodNotAllowed

\* ------------------------------------------------------------------ names
\* ValidateName accepts the lower-case names; "I" and "F" fail it.
IndexNames == {"i"}
IndexInputs == {"i", "I"}
FieldNames == {"f"}
FieldInputs == {"f", "", "F"}
\* The names direct calls on an Index are made with.
IdxFieldInputs == {"f", "g", "", "F"}
ValidateName(name) ==
    IF name \in IndexNames \cup FieldNames \cup {"g"} THEN Nil ELSE ErrName

ViewStandard == "standard"
ViewBSIGroup == "bsig"
ViewNames == {ViewStandard, ViewBSIGroup}

\* Fragment content: the set of bits stored in it.
Bits == {"b"}

\* FieldOptions: the cache type and whether opt.Validate() accepts the rest.
CacheTypes == {"ranked", "lru", "none"}
IsValidCacheType(v) == v \in CacheTypes
OptInputs ==
    { [cacheType |-> "ranked", valid |-> TRUE],
      [cacheType |-> "", valid |-> TRUE],
      [cacheType |-> "bogus", valid |-> TRUE],
      [cacheType |-> "ranked", valid |-> FALSE] }
NoOpt == [cacheType |-> "", valid |-> TRUE]
\* The (name, options) pairs CreateField is called with: every option with
\* the good name, every name with the good option.
CreateFieldInputs ==
    { [field |-> "f", opt |-> o] : o \in OptInputs }
    \cup { [field |-> f, opt |-> [cacheType |-> "ranked", valid |-> TRUE]] :
             f \in FieldInputs }

\* Outcomes of the file system under createField and DeleteField.
IoOK == "ok"
IoOpenFails == "open fails"
IoOpenFailsAfterMkdir == "open fails after mkdir"
IoApplyOptionsFails == "applyOptions fails"
IoSaveMetaFails == "saveMeta fails"
IoCloseFails == "close fails"
IoRemoveAllFails == "RemoveAll fails"
CreateIo == {IoOK, IoOpenFails, IoOpenFailsAfterMkdir, IoApplyOptionsFails, IoSaveMetaFails}
DeleteIo == {IoOK, IoCloseFails, IoRemoveAllFails}

\* ------------------------------------------------------------------ state
VARIABLES
    clusterState,   \* Cluster.State()
    nodes,          \* Cluster.Nodes, as the set of their ids
    coordinator,    \* Cluster.Coordinator
    jobs,           \* the resize jobs started so far, each [node, state]
    holder,         \* Holder: the names of its indexes
    fields,         \* Index.fields of each index: name -> field options
    dirs,           \* the field directories under each index path
    views,          \* the views of each field, as <<index, field, view>>
    frags,          \* the fragments: <<index, field, view, slice>> -> bits
    recalcs,        \* how often Holder.RecalculateCaches has run
    sent,           \* the messages handed to the Broadcaster, in order
    pc,             \* per thread: "idle", "local", "send"; "lock", "held", "body", "open" in a call that takes mu
    call,           \* per thread: the call it runs
    last,           \* the call that returned last
    ncalls,         \* API calls started
    remoteMaxSlice, \* Index.remoteMaxSlice of each index
    ret,            \* what the last direct call on an Index or the Cluster returned
    mu,             \* Index.mu of index i: the threads that hold it, to write and to read
    objs,           \* the Field objects in Index.fields of index i, for the calls that take mu
    ilog            \* the calls on index i that took mu or ran Open and have returned, in order

clusterVars == <<clusterState, nodes, coordinator, jobs>>
storeVars == <<holder, fields, dirs, views, frags, recalcs>>
dataVars == <<clusterVars, storeVars, sent>>
idxVars == <<remoteMaxSlice, ret>>
lockVars == <<mu, objs, ilog>>
vars == <<clusterVars, storeVars, sent, pc, call, last, ncalls, idxVars, lockVars>>

LocalID == 1

NoCall ==
    [ method |-> "none", index |-> "", field |-> "", view |-> "", slice |-> 0,
      node |-> 0, opt |-> NoOpt, state |-> "", err |-> Nil, lerr |-> Nil,
      serr |-> Nil,
      msg |-> "",
      applied |-> FALSE, tried |-> FALSE, mutated |-> FALSE, looked |-> FALSE,
      id |-> 0, found |-> FALSE, obj |-> <<>> ]

NoFields == [n \in {} |-> NoOpt]

\* No direct call yet. val is the value returned, before the registry the call
\* found, n and name its arguments.
NoRet ==
    [ op |-> "none", name |-> "", opt |-> NoOpt, n |-> 0, err |-> Nil, val |-> <<>>,
      before |-> NoFields, replicaN |-> 0, members |-> {}, owns |-> {},
      store |-> <<>>, peer |-> <<>>, arg |-> <<>> ]

\* What Holder.Open finds on disk when the node starts: no index, or the
\* index with the fields whose directories are under its path.
OnDisk ==
    { [holder |-> {}, reg |-> NoFields] }
    \cup { [holder |-> {"i"}, reg |-> [n \in S |-> [cacheType |-> "ranked", valid |-> TRUE]]] :
             S \in SUBSET FieldNames }

\* The node after construction, but for what direct calls are made with.
InitWith(coord) ==
    /\ clusterState = ClusterStateStarting
    /\ nodes = NodeIDs
    /\ coordinator = coord
    /\ jobs = <<>>
    /\ \E d \in OnDisk :
        /\ holder = d.holder
        /\ fields = [i \in IndexNames |-> d.reg]
        /\ dirs = [i \in IndexNames |-> DOMAIN d.reg]
    /\ views = {}
    /\ frags = [k \in {} |-> {}]
    /\ recalcs = 0
    /\ sent = <<>>
    /\ pc = [t \in Threads |-> "idle"]
    /\ call = [t \in Threads |-> NoCall]
    /\ last = NoCall
    /\ ncalls = 0
    /\ remoteMaxSlice = [i \in IndexNames |-> 0]
    /\ mu = [w |-> {}, r |-> {}]
    /\ objs = [n \in {} |-> <<>>]
    /\ ilog = <<>>

\* The node that is the coordinator of its cluster.
InitNode == InitWith(LocalID)

\* A node of a cluster with any of its nodes as the coordinator.
InitCoord == \E id \in NodeIDs : InitWith(id) /\ ret = NoRet

Init ==
    /\ InitNode
    /\ ret = NoRet

\* ---------------------------------------------------------------- cluster
Min(a, b) == IF a < b THEN a ELSE b

\* Cluster.ReplicaN: the number of owners of a slice.
ReplicaN == 1
\* The largest replication factor the ownership function is tried with.
MaxReplicaN == 3
\* The largest max slice another node reports.
MaxRemoteSlice == 2
\* Timestamps are tried from -MaxTimestamp to MaxTimestamp, in arrays of up
\* to MaxTimestamps, with NanosPerSecond nanoseconds to the second.
MaxTimestamp == 4
MaxTimestamps == 2
NanosPerSecond == 3
\* The highest id with attributes, and the number of ids in one block.
MaxAttrID == 3
AttrBlockSize == 2
\* The number of partitions slices hash into.
PartitionN == 4

\* The members in id order.
RECURSIVE SortedNodes(_)
SortedNodes(S) ==
    IF S = {} THEN <<>>
    ELSE LET m == CHOOSE x \in S : \A y \in S : x <= y
         IN <<m>> \o SortedNodes(S \ {m})

indexHash(index) == IF index = "i" THEN 1 ELSE 2

partition(index, slice) == (indexHash(index) + slice) % PartitionN

\* An owner list that always has replicaN entries, going round the ring again
\* when the members are fewer.
sliceNodesListNoMin(members, replicaN, index, slice) ==
    LET ring == SortedNodes(members)
        n == Len(ring)
    IN IF n = 0 THEN <<>>
       ELSE [k \in 1..replicaN |-> ring[((partition(index, slice) + k - 1) % n) + 1]]

\* Owners(index, slice) as the ordered list: replicaN consecutive members of
\* the ring from the partition's, or all of them when they are fewer.
sliceNodesList(members, replicaN, index, slice) ==
    LET ring == SortedNodes(members)
        n == Len(ring)
    IN IF n = 0 THEN <<>>
       ELSE [k \in 1..Min(replicaN, n) |->
                ring[((partition(index, slice) + k - 1) % n) + 1]]

\* ownsSlice on given members: the node is looked for in the owner list.
ownsSliceIn(members, replicaN, nodeID, index, slice) ==
    LET owners == sliceNodesList(members, replicaN, index, slice)
    IN \E k \in 1..Len(owners) : owners[k] = nodeID

\* The owners as a set, under the configured ReplicaN.
sliceNodesOf(members, index, slice) ==
    { n \in members : ownsSliceIn(members, ReplicaN, n, index, slice) }

sliceNodes(index, slice) == sliceNodesOf(nodes, index, slice)

ownsSlice(nodeID, index, slice) == nodeID \in sliceNodes(index, slice)

nodeByID(id) == IF id \in nodes THEN id ELSE 0

currentJob ==
    IF \E j \in 1..Len(jobs) : jobs[j].state = resizeJobStateRunning
    THEN CHOOSE j \in 1..Len(jobs) : jobs[j].state = resizeJobStateRunning
    ELSE 0

\* ------------------------------------------------------------------ index
\* A registry with one more field, and with one field less.
withField(reg, name, opt) ==
    [n \in DOMAIN reg \cup {name} |-> IF n = name THEN opt ELSE reg[n]]

withoutField(reg, name) == [n \in DOMAIN reg \ {name} |-> reg[n]]

\* A createField that registers the field before it validates the options.
createFieldRegistersFirst(reg, dd, name, opt, io) ==
    IF name = ""
    THEN [err |-> ErrFieldNameRequired, reg |-> reg, dd |-> dd]
    ELSE IF ValidateName(name) # Nil
    THEN [err |-> ErrInitializing, reg |-> reg, dd |-> dd]
    ELSE IF opt.cacheType # "" /\ ~IsValidCacheType(opt.cacheType)
    THEN [err |-> ErrInvalidCacheType, reg |-> withField(reg, name, opt),
          dd |-> dd \cup {name}]
    ELSE IF ~opt.valid
    THEN [err |-> ErrInvalidOptions, reg |-> withField(reg, name, opt),
          dd |-> dd \cup {name}]
    ELSE [err |-> Nil, reg |-> withField(reg, name, opt), dd |-> dd \cup {name}]

\* Index.createField on the registry reg and the directories dd of one index.
createField(reg, dd, name, opt, io) ==
    IF name = ""
    THEN [err |-> ErrFieldNameRequired, reg |-> reg, dd |-> dd]
    ELSE IF opt.cacheType # "" /\ ~IsValidCacheType(opt.cacheType)
    THEN [err |-> ErrInvalidCacheType, reg |-> reg, dd |-> dd]
    ELSE IF ~opt.valid
    THEN [err |-> ErrInvalidOptions, reg |-> reg, dd |-> dd]
    ELSE IF ValidateName(name) # Nil
    THEN [err |-> ErrInitializing, reg |-> reg, dd |-> dd]
    ELSE IF io = IoOpenFails
    THEN [err |-> ErrOpening, reg |-> reg, dd |-> dd]
    ELSE IF io = IoOpenFailsAfterMkdir
    THEN [err |-> ErrOpening, reg |-> reg, dd |-> dd \cup {name}]
    ELSE IF io = IoApplyOptionsFails
    THEN [err |-> ErrApplyingOptions, reg |-> reg, dd |-> dd \cup {name}]
    ELSE IF io = IoSaveMetaFails
    THEN [err |-> ErrSavingMeta, reg |-> reg, dd |-> dd \cup {name}]
    ELSE [err |-> Nil, reg |-> withField(reg, name, opt), dd |-> dd \cup {name}]

\* An Index.CreateField that does not look for the name first.
IndexCreateFieldOverwrites(reg, dd, name, opt, io) == createField(reg, dd, name, opt, io)

\* Index.CreateField.
IndexCreateField(reg, dd, name, opt, io) ==
    IF name \in DOMAIN reg
    THEN [err |-> ErrFieldExists, reg |-> reg, dd |-> dd]
    ELSE createField(reg, dd, name, opt, io)

\* An Index.CreateFieldIfNotExists that gives the field it finds the options
\* it was passed.
IndexCreateFieldIfNotExistsAppliesOptions(reg, dd, name, opt, io) ==
    IF name \in DOMAIN reg
    THEN [err |-> Nil, reg |-> withField(reg, name, opt), dd |-> dd]
    ELSE createField(reg, dd, name, opt, io)

\* Index.CreateFieldIfNotExists.
IndexCreateFieldIfNotExists(reg, dd, name, opt, io) ==
    IF name \in DOMAIN reg
    THEN [err |-> Nil, reg |-> reg, dd |-> dd]
    ELSE createField(reg, dd, name, opt, io)

\* An Index.DeleteField that leaves the directory of the field on disk.
IndexDeleteFieldKeepsDirectory(reg, dd, name, io) ==
    IF name \notin DOMAIN reg
    THEN [err |-> Nil, reg |-> reg, dd |-> dd, removed |-> FALSE]
    ELSE IF io = IoCloseFails
    THEN [err |-> ErrClosing, reg |-> reg, dd |-> dd, removed |-> FALSE]
    ELSE [err |-> Nil, reg |-> withoutField(reg, name), dd |-> dd, removed |-> TRUE]

\* Index.DeleteField; removed says whether the field left the registry.
IndexDeleteField(reg, dd, name, io) ==
    IF name \notin DOMAIN reg
    THEN [err |-> Nil, reg |-> reg, dd |-> dd, removed |-> FALSE]
    ELSE IF io = IoCloseFails
    THEN [err |-> ErrClosing, reg |-> reg, dd |-> dd, removed |-> FALSE]
    ELSE IF io = IoRemoveAllFails
    THEN [err |-> ErrRemovingDirectory, reg |-> reg, dd |-> dd, removed |-> FALSE]
    ELSE [err |-> Nil, reg |-> withoutField(reg, name), dd |-> dd \ {name},
          removed |-> TRUE]

\* ----------------------------------------------------------------- holder
\* Holder.Index, Holder.Field and Holder.Fragment: whether the lookup finds it.
HolderIndex(index) == index \in holder

HolderField(index, field) == HolderIndex(index) /\ field \in DOMAIN fields[index]

HolderFragment(index, field, view, slice) ==
    HolderField(index, field) /\ <<index, field, view, slice>> \in DOMAIN frags

\* The views and fragments left when those under a given prefix go.
viewsWithout(index, field, view) ==
    { v \in views : ~(v[1] = index /\ (field = "*" \/ v[2] = field)
                        /\ (view = "*" \/ v[3] = view)) }

fragsWithout(index, field, view) ==
    LET keep == { k \in DOMAIN frags :
                    ~(k[1] = index /\ (field = "*" \/ k[2] = field)
                        /\ (view = "*" \/ k[3] = view)) }
    IN [k \in keep |-> frags[k]]

\* Holder.CreateIndex.
HolderCreateIndex(name) ==
    IF ValidateName(name) # Nil THEN [err |-> ErrName, holder |-> holder]
    ELSE IF name \in holder THEN [err |-> ErrIndexExists, holder |-> holder]
    ELSE [err |-> Nil, holder |-> holder \cup {name}]

\* A fragment with the bits b added, made if it is not there.
fragsWith(key, b) ==
    [k \in DOMAIN frags \cup {key} |->
        IF k = key
        THEN (IF key \in DOMAIN frags THEN frags[key] ELSE {}) \cup b
        ELSE frags[k]]

\* A fragment whose content is replaced by b, made if it is not there.
fragsSet(key, b) ==
    [k \in DOMAIN frags \cup {key} |-> IF k = key THEN b ELSE frags[k]]

\* ------------------------------------------------------- the steps of a call
\* A gate that takes the cluster to be in NORMAL whatever its state.
validateAsNormal(f) == validateIn(ClusterStateNormal, f)

\* API.validate: the gate, on the cluster state as it is now.
validate(f) == validateIn(clusterState, f)

\* The handlers that SendSync the equivalent message after their local step.
broadcasts ==
    {apiCreateIndex, apiDeleteIndex, apiCreateField, apiDeleteField, apiDeleteView}

\* A handler that sends whatever its local step returned.
sendsAfterAnyError(m, lerr) == TRUE

\* Whether the handler goes on to SendSync when its local step returned lerr.
sendsAfter(m, lerr) == lerr = Nil \/ (m = apiDeleteView /\ lerr = ErrInvalidView)

\* The step a call takes once it is through the gate.
firstStep(m) == IF m = apiRecalculateCaches THEN "send" ELSE "local"

\* A step after the local one that broadcasts an import that succeeded.
afterLocalSendsImports(c, lerr) ==
    IF c.method \in {apiImport, apiImportValue} /\ lerr = Nil THEN "send"
    ELSE IF c.method \in broadcasts /\ sendsAfter(c.method, lerr) THEN "send"
    ELSE IF c.method = apiSetCoordinator /\ lerr = Nil /\ c.node # LocalID THEN "send"
    ELSE "idle"

\* The step after the local one.
afterLocal(c, lerr) ==
    IF c.method \in broadcasts /\ sendsAfter(c.method, lerr) THEN "send"
    ELSE IF c.method = apiSetCoordinator /\ lerr = Nil /\ c.node # LocalID THEN "send"
    ELSE "idle"

\* The step after a SendSync that returned no error.
afterSend(m) == IF m = apiRecalculateCaches THEN "local" ELSE "idle"

\* Thread t goes to step next with its call as c; a call that has returned
\* leaves the thread free and is remembered as the last one.
Goes(t, c, next) ==
    /\ pc' = [pc EXCEPT ![t] = next]
    /\ call' = [call EXCEPT ![t] = IF next = "idle" THEN NoCall ELSE c]
    /\ last' = IF next = "idle" THEN c ELSE last
    /\ UNCHANGED <<idxVars, lockVars>>

\* Thread t enters the handler of call c: validate, then on or out.
Begin(t, c) ==
    /\ pc[t] = "idle"
    /\ ncalls < MaxCalls
    /\ LET err == validate(c.method)
       IN Goes(t, [c EXCEPT !.state = clusterState, !.err = err],
               IF err = Nil THEN firstStep(c.method) ELSE "idle")
    /\ ncalls' = ncalls + 1
    /\ UNCHANGED dataVars

AtLocal(t, m) == pc[t] = "local" /\ call[t].method = m

\* The local step of t ends with lerr; looked: it looked an index, field or
\* fragment up. The handler returns lerr unless it goes on to send.
EndLocal(t, lerr, looked) ==
    LET c == call[t]
        next == afterLocal(c, lerr)
    IN /\ Goes(t, [c EXCEPT !.lerr = lerr,
                             !.err = IF next = "send" THEN Nil ELSE lerr,
                             !.applied = (lerr = Nil),
                             !.looked = looked,
                             !.mutated = c.mutated \/ (dataVars' # dataVars)],
               next)
       /\ UNCHANGED ncalls

message(c) ==
    [ type |-> c.method, index |-> c.index, field |-> c.field, view |-> c.view,
      to |-> IF c.method = apiSetCoordinator THEN c.node ELSE 0 ]

\* What the handler returns when its SendSync returned serr.
errAfterSend(m, serr) == serr

\* A handler that returns the error of its local step when the send went well.
afterSendSyncKeepsLocalError(c, serr) ==
    [c EXCEPT !.tried = TRUE, !.mutated = TRUE, !.serr = serr,
              !.err = IF serr = Nil THEN c.lerr ELSE serr]

\* The call of t after a SendSync that returned serr.
afterSendSync(c, serr) ==
    [c EXCEPT !.tried = TRUE, !.mutated = TRUE, !.serr = serr,
              !.err = errAfterSend(c.method, serr)]

\* A SendSync whose failure takes a created field out of the registry again.
SendSyncRollsBack(t) ==
    /\ pc[t] = "send"
    /\ call[t].method \in broadcasts \cup {apiRecalculateCaches}
    /\ \E serr \in {Nil, ErrSend} :
        /\ sent' = Append(sent, message(call[t]))
        /\ fields' = IF serr # Nil /\ call[t].method = apiCreateField
                      THEN [fields EXCEPT ![call[t].index] =
                              withoutField(@, call[t].field)]
                      ELSE fields
        /\ Goes(t, afterSendSync(call[t], serr),
                IF serr = Nil THEN afterSend(call[t].method) ELSE "idle")
    /\ UNCHANGED <<clusterVars, holder, dirs, views, frags, recalcs, ncalls>>

\* Broadcaster.SendSync of the call's message: it reaches the peers or fails.
\* Nothing is undone when it fails.
SendSync(t) ==
    /\ pc[t] = "send"
    /\ call[t].method \in broadcasts \cup {apiRecalculateCaches}
    /\ \E serr \in {Nil, ErrSend} :
        /\ sent' = Append(sent, message(call[t]))
        /\ Goes(t, afterSendSync(call[t], serr),
                IF serr = Nil THEN afterSend(call[t].method) ELSE "idle")
    /\ UNCHANGED <<clusterVars, storeVars, ncalls>>

\* Broadcaster.SendTo of SetCoordinatorMessage to the new coordinator.
SendTo(t) ==
    /\ pc[t] = "send"
    /\ call[t].method = apiSetCoordinator
    /\ \E serr \in {Nil, ErrSend} :
        /\ sent' = Append(sent, message(call[t]))
        /\ Goes(t, afterSendSync(call[t], serr), "idle")
    /\ UNCHANGED <<clusterVars, storeVars, ncalls>>

\* ------------------------------------------------------- schema mutations
CreateIndex(t) ==
    \/ \E i \in IndexInputs :
        Begin(t, [NoCall EXCEPT !.method = apiCreateIndex, !.index = i])
    \/ /\ AtLocal(t, apiCreateIndex)
       /\ LET r == HolderCreateIndex(call[t].index)
          IN /\ holder' = r.holder
             /\ UNCHANGED <<clusterVars, fields, dirs, views, frags, recalcs, sent>>
             /\ EndLocal(t, r.err, FALSE)

\* Holder.DeleteIndex: an index that is not there is no error.
HolderDeleteIndex(name) ==
    IF name \notin holder
    THEN [holder |-> holder, fields |-> fields, dirs |-> dirs, views |-> views,
          frags |-> frags]
    ELSE [holder |-> holder \ {name},
          fields |-> [fields EXCEPT ![name] = NoFields],
          dirs |-> [dirs EXCEPT ![name] = {}],
          views |-> viewsWithout(name, "*", "*"),
          frags |-> fragsWithout(name, "*", "*")]

\* What Holder.DeleteIndex returns: nil for an index it removed; for a name it
\* does not find, nil or the not-found error.
HolderDeleteIndexErrors(name) ==
    IF name \in holder THEN {Nil} ELSE {Nil, ErrIndexNotFound}

DeleteIndex(t) ==
    \/ \E i \in IndexNames :
        Begin(t, [NoCall EXCEPT !.method = apiDeleteIndex, !.index = i])
    \/ /\ AtLocal(t, apiDeleteIndex)
       /\ LET r == HolderDeleteIndex(call[t].index)
          IN /\ holder' = r.holder
             /\ fields' = r.fields
             /\ dirs' = r.dirs
             /\ views' = r.views
             /\ frags' = r.frags
             /\ UNCHANGED <<clusterVars, recalcs, sent>>
             /\ \E e \in HolderDeleteIndexErrors(call[t].index) : EndLocal(t, e, TRUE)

CreateField(t) ==
    \/ \E inp \in CreateFieldInputs :
        Begin(t, [NoCall EXCEPT !.method = apiCreateField, !.index = "i",
                                !.field = inp.field, !.opt = inp.opt])
    \/ /\ AtLocal(t, apiCreateField)
       /\ LET c == call[t]
          IN IF ~HolderIndex(c.index)
             THEN /\ UNCHANGED dataVars
                  /\ EndLocal(t, ErrIndexNotFound, TRUE)
             ELSE \E io \in CreateIo :
                    LET r == IndexCreateField(fields[c.index], dirs[c.index],
                                              c.field, c.opt, io)
                    IN /\ fields' = [fields EXCEPT ![c.index] = r.reg]
                       /\ dirs' = [dirs EXCEPT ![c.index] = r.dd]
                       /\ UNCHANGED <<clusterVars, holder, views, frags, recalcs, sent>>
                       /\ EndLocal(t, r.err, TRUE)

DeleteField(t) ==
    \/ \E f \in FieldNames :
        Begin(t, [NoCall EXCEPT !.method = apiDeleteField, !.index = "i", !.field = f])
    \/ /\ AtLocal(t, apiDeleteField)
       /\ LET c == call[t]
          IN IF ~HolderIndex(c.index)
             THEN /\ UNCHANGED dataVars
                  /\ EndLocal(t, ErrIndexNotFound, TRUE)
             ELSE \E io \in DeleteIo :
                    LET r == IndexDeleteField(fields[c.index], dirs[c.index], c.field, io)
                    IN /\ fields' = [fields EXCEPT ![c.index] = r.reg]
                       /\ dirs' = [dirs EXCEPT ![c.index] = r.dd]
                       /\ views' = IF r.removed THEN viewsWithout(c.index, c.field, "*")
                                   ELSE views
                       /\ frags' = IF r.removed THEN fragsWithout(c.index, c.field, "*")
                                   ELSE frags
                       /\ UNCHANGED <<clusterVars, holder, recalcs, sent>>
                       /\ EndLocal(t, r.err, TRUE)

\* Field.DeleteView: ErrInvalidView when the field has no such view.
FieldDeleteView(index, field, view, ioOK) ==
    IF <<index, field, view>> \notin views
    THEN [err |-> ErrInvalidView, views |-> views, frags |-> frags]
    ELSE IF ~ioOK
    THEN [err |-> ErrDeletingView, views |-> views, frags |-> frags]
    ELSE [err |-> Nil, views |-> viewsWithout(index, field, view),
          frags |-> fragsWithout(index, field, view)]

DeleteView(t) ==
    \/ \E v \in ViewNames :
        Begin(t, [NoCall EXCEPT !.method = apiDeleteView, !.index = "i",
                                !.field = "f", !.view = v])
    \/ /\ AtLocal(t, apiDeleteView)
       /\ LET c == call[t]
          IN IF ~HolderField(c.index, c.field)
             THEN /\ UNCHANGED dataVars
                  /\ EndLocal(t, ErrFieldNotFound, TRUE)
             ELSE \E ioOK \in BOOLEAN :
                    LET r == FieldDeleteView(c.index, c.field, c.view, ioOK)
                    IN /\ views' = r.views
                       /\ frags' = r.frags
                       /\ UNCHANGED <<clusterVars, holder, fields, dirs, recalcs, sent>>
                       /\ EndLocal(t, r.err, TRUE)

\* Holder.RecalculateCaches, which the handler runs after its SendSync.
RecalculateCaches(t) ==
    \/ Begin(t, [NoCall EXCEPT !.method = apiRecalculateCaches])
    \/ /\ AtLocal(t, apiRecalculateCaches)
       /\ recalcs' = recalcs + 1
       /\ UNCHANGED <<clusterVars, holder, fields, dirs, views, frags, sent>>
       /\ EndLocal(t, Nil, TRUE)

\* ------------------------------------------------------------- data plane
\* An indexField that looks the index and the field up before the ownership.
indexFieldLookupFirst(index, field, slice) ==
    IF ~HolderIndex(index) THEN [err |-> ErrIndexNotFound, looked |-> TRUE]
    ELSE IF field \notin DOMAIN fields[index]
    THEN [err |-> ErrFieldNotFound, looked |-> TRUE]
    ELSE IF ~ownsSlice(LocalID, index, slice)
    THEN [err |-> ErrClusterDoesNotOwnSlice, looked |-> TRUE]
    ELSE [err |-> Nil, looked |-> TRUE]

\* API.indexField: the ownership check, then the index, then the field.
indexField(index, field, slice) ==
    IF ~ownsSlice(LocalID, index, slice)
    THEN [err |-> ErrClusterDoesNotOwnSlice, looked |-> FALSE]
    ELSE IF ~HolderIndex(index) THEN [err |-> ErrIndexNotFound, looked |-> TRUE]
    ELSE IF field \notin DOMAIN fields[index]
    THEN [err |-> ErrFieldNotFound, looked |-> TRUE]
    ELSE [err |-> Nil, looked |-> TRUE]

\* The local step of Import and ImportValue: indexField, then the field's
\* import, which writes the bits into the slice's fragment of the given view.
ImportLocal(t, view) ==
    LET c == call[t]
        r == indexField(c.index, c.field, c.slice)
    IN IF r.err # Nil
       THEN /\ UNCHANGED dataVars
            /\ EndLocal(t, r.err, r.looked)
       ELSE \E ok \in BOOLEAN :
              /\ views' = IF ok THEN views \cup {<<c.index, c.field, view>>} ELSE views
              /\ frags' = IF ok
                          THEN fragsWith(<<c.index, c.field, view, c.slice>>, Bits)
                          ELSE frags
              /\ UNCHANGED <<clusterVars, holder, fields, dirs, recalcs, sent>>
              /\ EndLocal(t, IF ok THEN Nil ELSE ErrImporting, TRUE)

Import(t) ==
    \/ \E s \in Slices :
        Begin(t, [NoCall EXCEPT !.method = apiImport, !.index = "i", !.field = "f",
                                !.slice = s])
    \/ /\ AtLocal(t, apiImport)
       /\ ImportLocal(t, ViewStandard)

ImportValue(t) ==
    \/ \E s \in Slices :
        Begin(t, [NoCall EXCEPT !.method = apiImportValue, !.index = "i", !.field = "f",
                                !.slice = s])
    \/ /\ AtLocal(t, apiImportValue)
       /\ ImportLocal(t, ViewBSIGroup)

\* What ExportCSV checks before it writes: the ownership, then the fragment.
exportCheck(index, field, slice) ==
    IF ~ownsSlice(LocalID, index, slice)
    THEN [err |-> ErrClusterDoesNotOwnSlice, looked |-> FALSE]
    ELSE IF ~HolderFragment(index, field, ViewStandard, slice)
    THEN [err |-> ErrFragmentNotFound, looked |-> TRUE]
    ELSE [err |-> Nil, looked |-> TRUE]

ExportCSV(t) ==
    \/ \E s \in Slices :
        Begin(t, [NoCall EXCEPT !.method = apiExportCSV, !.index = "i", !.field = "f",
                                !.slice = s])
    \/ /\ AtLocal(t, apiExportCSV)
       /\ LET c == call[t]
              r == exportCheck(c.index, c.field, c.slice)
          IN /\ UNCHANGED dataVars
             /\ EndLocal(t, r.err, r.looked)

\* UnmarshalFragment: the field, its standard view and the fragment, made if
\* they are not there, then Fragment.ReadFrom.
UnmarshalFragment(t) ==
    \/ \E s \in Slices :
        Begin(t, [NoCall EXCEPT !.method = apiUnmarshalFragment, !.index = "i",
                                !.field = "f", !.slice = s])
    \/ /\ AtLocal(t, apiUnmarshalFragment)
       /\ LET c == call[t]
              key == <<c.index, c.field, ViewStandard, c.slice>>
          IN IF ~HolderField(c.index, c.field)
             THEN /\ UNCHANGED dataVars
                  /\ EndLocal(t, ErrFieldNotFound, TRUE)
             ELSE \E readOK \in BOOLEAN, data \in SUBSET Bits :
                    /\ views' = views \cup {<<c.index, c.field, ViewStandard>>}
                    /\ frags' = IF readOK THEN fragsSet(key, data) ELSE fragsWith(key, {})
                    /\ UNCHANGED <<clusterVars, holder, fields, dirs, recalcs, sent>>
                    /\ EndLocal(t, IF readOK THEN Nil ELSE ErrReadingFragment, TRUE)

\* ------------------------------------------------------------ read-only calls
\* A handler that only looks something up and returns err.
ReadOnly(t, err) ==
    /\ UNCHANGED dataVars
    /\ EndLocal(t, err, TRUE)

fragmentNotFound(c) ==
    IF HolderFragment(c.index, c.field, ViewStandard, c.slice) THEN Nil
    ELSE ErrFragmentNotFound

MarshalFragment(t) ==
    \/ \E s \in Slices :
        Begin(t, [NoCall EXCEPT !.method = apiMarshalFragment, !.index = "i",
                                !.field = "f", !.slice = s])
    \/ /\ AtLocal(t, apiMarshalFragment)
       /\ ReadOnly(t, fragmentNotFound(call[t]))

FragmentBlocks(t) ==
    \/ \E s \in Slices :
        Begin(t, [NoCall EXCEPT !.method = apiFragmentBlocks, !.index = "i",
                                !.field = "f", !.slice = s])
    \/ /\ AtLocal(t, apiFragmentBlocks)
       /\ ReadOnly(t, fragmentNotFound(call[t]))

FragmentBlockData(t) ==
    \/ \E s \in Slices, m \in {"BlockDataRequest", "malformed"} :
        Begin(t, [NoCall EXCEPT !.method = apiFragmentBlockData, !.index = "i",
                                !.field = "f", !.slice = s, !.msg = m])
    \/ /\ AtLocal(t, apiFragmentBlockData)
       /\ ReadOnly(t, IF call[t].msg = "malformed" THEN ErrBadRequest
                      ELSE fragmentNotFound(call[t]))

Views(t) ==
    \/ Begin(t, [NoCall EXCEPT !.method = apiViews, !.index = "i", !.field = "f"])
    \/ /\ AtLocal(t, apiViews)
       /\ ReadOnly(t, IF HolderField(call[t].index, call[t].field) THEN Nil
                      ELSE ErrFieldNotFound)

Index(t) ==
    \/ Begin(t, [NoCall EXCEPT !.method = apiIndex, !.index = "i"])
    \/ /\ AtLocal(t, apiIndex)
       /\ ReadOnly(t, IF HolderIndex(call[t].index) THEN Nil ELSE ErrIndexNotFound)

IndexAttrDiff(t) ==
    \/ Begin(t, [NoCall EXCEPT !.method = apiIndexAttrDiff, !.index = "i"])
    \/ /\ AtLocal(t, apiIndexAttrDiff)
       /\ ReadOnly(t, IF HolderIndex(call[t].index) THEN Nil ELSE ErrIndexNotFound)

FieldAttrDiff(t) ==
    \/ Begin(t, [NoCall EXCEPT !.method = apiFieldAttrDiff, !.index = "i", !.field = "f"])
    \/ /\ AtLocal(t, apiFieldAttrDiff)
       /\ ReadOnly(t, IF HolderField(call[t].index, call[t].field) THEN Nil
                      ELSE ErrFieldNotFound)

SliceNodes(t) ==
    \/ \E s \in Slices :
        Begin(t, [NoCall EXCEPT !.method = apiSliceNodes, !.index = "i", !.slice = s])
    \/ /\ AtLocal(t, apiSliceNodes)
       /\ UNCHANGED dataVars
       /\ EndLocal(t, Nil, FALSE)

\* Query: the parser and the executor are outside; they answer or fail.
Query(t) ==
    \/ Begin(t, [NoCall EXCEPT !.method = apiQuery, !.index = "i"])
    \/ /\ AtLocal(t, apiQuery)
       /\ \E e \in {Nil, ErrExecuting} :
            /\ UNCHANGED dataVars
            /\ EndLocal(t, e, FALSE)

\* ---------------------------------------------------------------- cluster
\* Cluster.nodeLeave: in NORMAL it starts the resize job that removes the
\* node and the cluster goes RESIZING. With a job in flight the request is
\* rejected or its job takes the place of the one in flight.
nodeLeave(id, supersede) ==
    IF clusterState = ClusterStateNormal
    THEN [err |-> Nil, state |-> ClusterStateResizing,
          jobs |-> Append(jobs, [node |-> id, state |-> resizeJobStateRunning])]
    ELSE IF supersede /\ currentJob # 0
    THEN [err |-> Nil, state |-> ClusterStateResizing,
          jobs |-> Append([jobs EXCEPT ![currentJob].state = resizeJobStateAborted],
                          [node |-> id, state |-> resizeJobStateRunning])]
    ELSE [err |-> ErrNodeLeave, state |-> clusterState, jobs |-> jobs]

RemoveNode(t) ==
    \/ \E id \in 1..(NumNodes + 1) :
        Begin(t, [NoCall EXCEPT !.method = apiRemoveNode, !.node = id])
    \/ /\ AtLocal(t, apiRemoveNode)
       /\ IF nodeByID(call[t].node) = 0
          THEN /\ UNCHANGED dataVars
               /\ EndLocal(t, ErrNodeIDNotExists, FALSE)
          ELSE \E supersede \in BOOLEAN :
                 LET r == nodeLeave(call[t].node, supersede)
                 IN /\ clusterState' = r.state
                    /\ jobs' = r.jobs
                    /\ UNCHANGED <<nodes, coordinator, storeVars, sent>>
                    /\ EndLocal(t, r.err, FALSE)

\* A completeCurrentJob that leaves the cluster state as it is.
completeCurrentJobKeepsState(state) ==
    IF currentJob = 0
    THEN [err |-> ErrResizeNotRunning, state |-> clusterState, jobs |-> jobs]
    ELSE [err |-> Nil, state |-> clusterState,
          jobs |-> [jobs EXCEPT ![currentJob].state = state]]

\* Cluster.completeCurrentJob: the job in flight ends in the given state and
\* the cluster is back to NORMAL.
completeCurrentJob(state) ==
    IF currentJob = 0
    THEN [err |-> ErrResizeNotRunning, state |-> clusterState, jobs |-> jobs]
    ELSE [err |-> Nil, state |-> ClusterStateNormal,
          jobs |-> [jobs EXCEPT ![currentJob].state = state]]

ResizeAbort(t) ==
    \/ Begin(t, [NoCall EXCEPT !.method = apiResizeAbort])
    \/ /\ AtLocal(t, apiResizeAbort)
       /\ LET r == completeCurrentJob(resizeJobStateAborted)
          IN /\ clusterState' = r.state
             /\ jobs' = r.jobs
             /\ UNCHANGED <<nodes, coordinator, storeVars, sent>>
             /\ EndLocal(t, r.err, FALSE)

\* The resize job in flight finishes: its node leaves and the cluster is
\* back to NORMAL.
ResizeJobDone ==
    /\ currentJob # 0
    /\ nodes' = nodes \ {jobs[currentJob].node}
    /\ jobs' = [jobs EXCEPT ![currentJob].state = resizeJobStateDone]
    /\ clusterState' = ClusterStateNormal
    /\ UNCHANGED <<coordinator, storeVars, sent, pc, call, last, ncalls, idxVars, lockVars>>

\* The cluster considers itself formed.
ClusterFormed ==
    /\ clusterState = ClusterStateStarting
    /\ clusterState' = ClusterStateNormal
    /\ UNCHANGED <<nodes, coordinator, jobs, storeVars, sent, pc, call, last, ncalls,
                   idxVars, lockVars>>

\* SetCoordinator: the local node takes the role itself; for another node the
\* message goes to it with SendTo.
\* A SetCoordinator that records the new coordinator before it tells it.
SetCoordinatorRecordsFirst(t) ==
    \/ \E id \in 1..(NumNodes + 1) :
        Begin(t, [NoCall EXCEPT !.method = apiSetCoordinator, !.node = id])
    \/ /\ AtLocal(t, apiSetCoordinator)
       /\ LET c == call[t]
          IN IF nodeByID(c.node) = 0
             THEN /\ UNCHANGED dataVars
                  /\ EndLocal(t, ErrNodeIDNotExists, FALSE)
             ELSE /\ coordinator' = c.node
                  /\ UNCHANGED <<clusterState, nodes, jobs, storeVars, sent>>
                  /\ EndLocal(t, Nil, FALSE)

SetCoordinator(t) ==
    \/ \E id \in 1..(NumNodes + 1) :
        Begin(t, [NoCall EXCEPT !.method = apiSetCoordinator, !.node = id])
    \/ /\ AtLocal(t, apiSetCoordinator)
       /\ LET c == call[t]
          IN IF nodeByID(c.node) = 0
             THEN /\ UNCHANGED dataVars
                  /\ EndLocal(t, ErrNodeIDNotExists, FALSE)
             ELSE /\ coordinator' = IF c.node = LocalID THEN c.node ELSE coordinator
                  /\ UNCHANGED <<clusterState, nodes, jobs, storeVars, sent>>
                  /\ EndLocal(t, Nil, FALSE)

\* ClusterMessage: a peer's message is unmarshalled and applied as the
\* equivalent local mutation, with no broadcast of its own.
ClusterMessages ==
    {"CreateIndexMessage", "DeleteIndexMessage", "CreateFieldMessage",
     "DeleteFieldMessage", "malformed"}

ReceiveMessage(msg) ==
    CASE msg = "CreateIndexMessage" ->
           LET r == HolderCreateIndex("i")
           IN [err |-> r.err, holder |-> r.holder, fields |-> fields, dirs |-> dirs,
               views |-> views, frags |-> frags]
      [] msg = "DeleteIndexMessage" ->
           LET r == HolderDeleteIndex("i")
           IN [err |-> Nil, holder |-> r.holder, fields |-> r.fields, dirs |-> r.dirs,
               views |-> r.views, frags |-> r.frags]
      [] msg = "CreateFieldMessage" ->
           IF ~HolderIndex("i")
           THEN [err |-> ErrIndexNotFound, holder |-> holder, fields |-> fields,
                 dirs |-> dirs, views |-> views, frags |-> frags]
           ELSE LET r == IndexCreateField(fields["i"], dirs["i"], "f",
                                          [cacheType |-> "ranked", valid |-> TRUE], IoOK)
                IN [err |-> r.err, holder |-> holder,
                    fields |-> [fields EXCEPT !["i"] = r.reg],
                    dirs |-> [dirs EXCEPT !["i"] = r.dd],
                    views |-> views, frags |-> frags]
      [] msg = "DeleteFieldMessage" ->
           IF ~HolderIndex("i")
           THEN [err |-> ErrIndexNotFound, holder |-> holder, fields |-> fields,
                 dirs |-> dirs, views |-> views, frags |-> frags]
           ELSE LET r == IndexDeleteField(fields["i"], dirs["i"], "f", IoOK)
                IN [err |-> r.err, holder |-> holder,
                    fields |-> [fields EXCEPT !["i"] = r.reg],
                    dirs |-> [dirs EXCEPT !["i"] = r.dd],
                    views |-> IF r.removed THEN viewsWithout("i", "f", "*") ELSE views,
                    frags |-> IF r.removed THEN fragsWithout("i", "f", "*") ELSE frags]
      [] OTHER ->
           [err |-> ErrUnmarshaling, holder |-> holder, fields |-> fields,
            dirs |-> dirs, views |-> views, frags |-> frags]

ClusterMessage(t) ==
    \/ \E m \in ClusterMessages :
        Begin(t, [NoCall EXCEPT !.method = apiClusterMessage, !.msg = m])
    \/ /\ AtLocal(t, apiClusterMessage)
       /\ LET r == ReceiveMessage(call[t].msg)
          IN /\ holder' = r.holder
             /\ fields' = r.fields
             /\ dirs' = r.dirs
             /\ views' = r.views
             /\ frags' = r.frags
             /\ UNCHANGED <<clusterVars, recalcs, sent>>
             /\ EndLocal(t, r.err, TRUE)

\* ------------------------------------------------- direct calls on an Index
\* Index.Field: the field registered under the name, or none.
IndexField(reg, name) == IF name \in DOMAIN reg THEN <<reg[name]>> ELSE <<>>

\* Field.MaxSlice: the highest slice the field has a fragment for.
FieldMaxSliceIn(fr, index, field) ==
    LET ss == { k[4] : k \in { x \in DOMAIN fr : x[1] = index /\ x[2] = field } }
    IN IF ss = {} THEN 0 ELSE CHOOSE m \in ss : \A x \in ss : x <= m

\* The loop of Index.MaxSlice over the fields still to visit.
RECURSIVE maxOver(_, _, _, _)
maxOver(max, names, fr, index) ==
    IF names = {} THEN max
    ELSE LET f == CHOOSE x \in names : TRUE
             slice == FieldMaxSliceIn(fr, index, f)
         IN maxOver(IF slice > max THEN slice ELSE max, names \ {f}, fr, index)

\* An Index.MaxSlice that starts from 0 instead of remoteMaxSlice.
IndexMaxSliceOfFieldsOnly(present, remote, names, fr, index) ==
    IF ~present THEN 0 ELSE maxOver(0, names, fr, index)

\* Index.MaxSlice, of an index that is there or nil.
IndexMaxSliceOf(present, remote, names, fr, index) ==
    IF ~present THEN 0 ELSE maxOver(remote, names, fr, index)

IndexMaxSlice(index) ==
    IF ~HolderIndex(index) THEN IndexMaxSliceOf(FALSE, 0, {}, frags, index)
    ELSE IndexMaxSliceOf(TRUE, remoteMaxSlice[index], DOMAIN fields[index], frags, index)

\* The values other nodes report as their max slice.
RemoteSlices == 0..MaxRemoteSlice

IdxUnchanged ==
    UNCHANGED <<clusterVars, holder, recalcs, sent, pc, call, last, ncalls, lockVars>>

IdxCreateField ==
    /\ HolderIndex("i")
    /\ \E name \in IdxFieldInputs, opt \in OptInputs, io \in CreateIo :
        LET r == IndexCreateField(fields["i"], dirs["i"], name, opt, io)
        IN /\ fields' = [fields EXCEPT !["i"] = r.reg]
           /\ dirs' = [dirs EXCEPT !["i"] = r.dd]
           /\ ret' = [NoRet EXCEPT !.op = "CreateField", !.name = name, !.opt = opt,
                                   !.err = r.err, !.before = fields["i"],
                                   !.val = IF r.err = Nil THEN <<r.reg[name]>> ELSE <<>>]
    /\ UNCHANGED <<views, frags, remoteMaxSlice>>
    /\ IdxUnchanged

IdxCreateFieldIfNotExists ==
    /\ HolderIndex("i")
    /\ \E name \in IdxFieldInputs, opt \in OptInputs, io \in CreateIo :
        LET r == IndexCreateFieldIfNotExists(fields["i"], dirs["i"], name, opt, io)
        IN /\ fields' = [fields EXCEPT !["i"] = r.reg]
           /\ dirs' = [dirs EXCEPT !["i"] = r.dd]
           /\ ret' = [NoRet EXCEPT !.op = "CreateFieldIfNotExists", !.name = name,
                                   !.opt = opt, !.err = r.err, !.before = fields["i"],
                                   !.val = IF r.err = Nil THEN <<r.reg[name]>> ELSE <<>>]
    /\ UNCHANGED <<views, frags, remoteMaxSlice>>
    /\ IdxUnchanged

IdxDeleteField ==
    /\ HolderIndex("i")
    /\ \E name \in IdxFieldInputs, io \in DeleteIo :
        LET r == IndexDeleteField(fields["i"], dirs["i"], name, io)
        IN /\ fields' = [fields EXCEPT !["i"] = r.reg]
           /\ dirs' = [dirs EXCEPT !["i"] = r.dd]
           /\ views' = IF r.removed THEN viewsWithout("i", name, "*") ELSE views
           /\ frags' = IF r.removed THEN fragsWithout("i", name, "*") ELSE frags
           /\ ret' = [NoRet EXCEPT !.op = "DeleteField", !.name = name,
                                   !.err = r.err, !.before = fields["i"]]
    /\ UNCHANGED remoteMaxSlice
    /\ IdxUnchanged

IdxField ==
    /\ HolderIndex("i")
    /\ \E name \in IdxFieldInputs :
        ret' = [NoRet EXCEPT !.op = "Field", !.name = name, !.before = fields["i"],
                             !.val = IndexField(fields["i"], name)]
    /\ UNCHANGED <<storeVars, remoteMaxSlice>>
    /\ IdxUnchanged

\* Holder.Index(name).MaxSlice(), of an index that may not be there.
IdxMaxSlice ==
    /\ \E index \in IndexInputs :
        ret' = [NoRet EXCEPT !.op = "MaxSlice", !.name = index,
                             !.before = IF HolderIndex(index) THEN fields[index]
                                         ELSE NoFields,
                             !.val = <<IndexMaxSlice(index)>>]
    /\ UNCHANGED <<storeVars, remoteMaxSlice>>
    /\ IdxUnchanged

\* Index.SetRemoteMaxSlice.
IdxSetRemoteMaxSlice ==
    /\ HolderIndex("i")
    /\ \E newmax \in RemoteSlices :
        /\ remoteMaxSlice' = [remoteMaxSlice EXCEPT !["i"] = newmax]
        /\ ret' = [NoRet EXCEPT !.op = "SetRemoteMaxSlice", !.n = newmax,
                                !.before = fields["i"]]
    /\ UNCHANGED storeVars
    /\ IdxUnchanged

\* A bit is written into a slice of a registered field: the view and the
\* fragment are made on first need.
IdxFieldWrite ==
    /\ HolderIndex("i")
    /\ \E f \in DOMAIN fields["i"], slice \in Slices :
        /\ views' = views \cup {<<"i", f, ViewStandard>>}
        /\ frags' = fragsWith(<<"i", f, ViewStandard, slice>>, Bits)
        /\ ret' = [NoRet EXCEPT !.op = "write", !.name = f, !.n = slice,
                                !.before = fields["i"]]
    /\ UNCHANGED <<holder, fields, dirs, recalcs, remoteMaxSlice>>
    /\ UNCHANGED <<clusterVars, sent, pc, call, last, ncalls, lockVars>>

\* ------------------------------------------------------------ attribute diff
\* An attribute store: the attributes of the ids that have some.
AttrIDs == 0..MaxAttrID
AttrValues == {"a", "b"}
AttrStores == UNION { [S -> AttrValues] : S \in SUBSET AttrIDs }

attrBlockOf(id) == id \div AttrBlockSize

\* AttrStore.BlockData: the id -> attributes of one block.
AttrStoreBlockData(store, blockID) ==
    [k \in { x \in DOMAIN store : attrBlockOf(x) = blockID } |-> store[k]]

\* AttrStore.Blocks: id and checksum of every block that is not empty; the
\* checksum of a block stands for its content, no two contents sharing one.
AttrStoreBlocks(store) ==
    { [id |-> b, checksum |-> AttrStoreBlockData(store, b)] :
        b \in { attrBlockOf(x) : x \in DOMAIN store } }

\* AttrBlocks.Diff: the ids of the blocks whose checksum differs or that are
\* on one side only.
AttrBlocksDiff(a, other) ==
    { b.id : b \in (a \ other) \cup (other \ a) }

\* A loop that reads every local block, mismatched or not.
attrDiffOfAllBlocks(store, ids, attrs) ==
    [k \in DOMAIN store |-> store[k]]

\* The loop of IndexAttrDiff and FieldAttrDiff: the data of each mismatched
\* block is copied into attrs, key by key.
RECURSIVE attrDiff(_, _, _)
attrDiff(store, ids, attrs) ==
    IF ids = {} THEN attrs
    ELSE LET blockID == CHOOSE b \in ids : \A x \in ids : b <= x
             m == AttrStoreBlockData(store, blockID)
         IN attrDiff(store, ids \ {blockID},
                     [k \in DOMAIN attrs \cup DOMAIN m |->
                        IF k \in DOMAIN m THEN m[k] ELSE attrs[k]])

\* The body of both handlers after the lookup: found says whether the index
\* or the field was found, store is its attribute store, blocks the peer's
\* block summary.
attrDiffCall(method, found, notFound, store, blocks) ==
    IF validate(method) # Nil THEN [err |-> ErrMethodNotAllowed, val |-> <<>>]
    ELSE IF ~found THEN [err |-> notFound, val |-> <<>>]
    ELSE [err |-> Nil,
          val |-> attrDiff(store, AttrBlocksDiff(AttrStoreBlocks(store), blocks), <<>>)]

\* The node with a local attribute store and a peer's, whose block summary
\* the calls are given.
InitAttr ==
    /\ InitNode
    /\ \E store \in AttrStores, peer \in AttrStores :
        ret = [NoRet EXCEPT !.store = store, !.peer = peer]

AttrIndexAttrDiff ==
    /\ LET r == attrDiffCall(apiIndexAttrDiff, HolderIndex("i"), ErrIndexNotFound,
                             ret.store, AttrStoreBlocks(ret.peer))
       IN ret' = [ret EXCEPT !.op = apiIndexAttrDiff, !.name = "i",
                             !.err = r.err, !.val = r.val]
    /\ UNCHANGED <<clusterVars, storeVars, sent, pc, call, last, ncalls, remoteMaxSlice, lockVars>>

AttrFieldAttrDiff ==
    /\ LET r == attrDiffCall(apiFieldAttrDiff, HolderField("i", "f"), ErrFieldNotFound,
                             ret.store, AttrStoreBlocks(ret.peer))
       IN ret' = [ret EXCEPT !.op = apiFieldAttrDiff, !.name = "f",
                             !.err = r.err, !.val = r.val]
    /\ UNCHANGED <<clusterVars, storeVars, sent, pc, call, last, ncalls, remoteMaxSlice, lockVars>>

\* ------------------------------------------------------ the lock of an Index
\* The calls on index i step by step: a call waits for Index.mu ("lock"),
\* holds it ("held", and "body" once it has looked its name up), and gives it
\* back when it returns. Open takes no lock ("open"). The handlers CreateField
\* and DeleteField go on to their SendSync after the call on the index.
ReadMethods == {"Field", "Fields", "Options", "MaxSlice"}

CreateMethods == {"CreateField", "CreateFieldIfNotExists", apiCreateField}

DeleteMethods == {"DeleteField", apiDeleteField}

WriteMethods == CreateMethods \cup DeleteMethods \cup {"Close"}

\* A lock that is granted whoever holds it.
muFreeAlways(m) == TRUE

\* mu.Lock returns when no thread holds mu.
muFree(m) == m.w = {} /\ m.r = {}

\* mu.RLock returns when no thread holds mu to write.
muFreeToRead(m) == m.w = {}

\* A lock that is kept after the call on the index has returned.
muKept(m, t) == m

\* mu.Unlock and mu.RUnlock, deferred to the return of the call.
muUnlock(m, t) == [w |-> m.w \ {t}, r |-> m.r \ {t}]

\* The Field object registered under a name: the one a call put there, or the
\* one opened at start.
RegisteredObj(name) ==
    IF name \notin DOMAIN fields["i"] THEN <<>>
    ELSE IF name \in DOMAIN objs THEN objs[name]
    ELSE <<0>>

objsWith(name, id) == [n \in DOMAIN objs \cup {name} |-> IF n = name THEN <<id>> ELSE objs[n]]

objsWithout(name) == [n \in DOMAIN objs \ {name} |-> objs[n]]

\* The entry of a returned call: obj is the Field it returned, made says
\* whether it constructed and registered it.
LogEntry(c, err, obj, made) ==
    [id |-> c.id, method |-> c.method, err |-> err, obj |-> obj, made |-> made]

\* A direct call of method m on the index starts.
LkBegin(t, m, opt) ==
    /\ pc[t] = "idle"
    /\ ncalls < MaxCalls
    /\ HolderIndex("i")
    /\ pc' = [pc EXCEPT ![t] = IF m = "Open" THEN "open" ELSE "lock"]
    /\ call' = [call EXCEPT ![t] = [NoCall EXCEPT !.method = m, !.index = "i",
                                                  !.field = "f", !.opt = opt,
                                                  !.id = ncalls + 1]]
    /\ ncalls' = ncalls + 1
    /\ UNCHANGED <<dataVars, last, idxVars, lockVars>>

\* A handler starts: the gate, then Holder.Index, then the call on the index.
LkBeginAPI(t, m, opt) ==
    \/ /\ Begin(t, [NoCall EXCEPT !.method = m, !.index = "i", !.field = "f",
                                  !.opt = opt, !.id = ncalls + 1])
    \/ /\ AtLocal(t, m)
       /\ UNCHANGED dataVars
       /\ IF ~HolderIndex("i")
          THEN EndLocal(t, ErrIndexNotFound, TRUE)
          ELSE /\ pc' = [pc EXCEPT ![t] = "lock"]
               /\ UNCHANGED <<call, last, ncalls, idxVars, lockVars>>

\* The call of t returns from the index with err: mu is given back, the call
\* is logged, and a handler goes on to its SendSync or returns.
LkReturn(t, err, obj, made) ==
    LET c == call[t]
        api == c.method \in {apiCreateField, apiDeleteField}
        next == IF api THEN afterLocal(c, err) ELSE "idle"
        done == [c EXCEPT !.lerr = err, !.err = IF next = "send" THEN Nil ELSE err,
                          !.applied = (err = Nil), !.obj = obj]
    IN /\ pc' = [pc EXCEPT ![t] = next]
       /\ call' = [call EXCEPT ![t] = IF next = "idle" THEN NoCall ELSE done]
       /\ last' = IF next = "idle" THEN done ELSE last
       /\ ilog' = Append(ilog, LogEntry(c, err, obj, made))
       /\ mu' = muUnlock(mu, t)
       /\ UNCHANGED <<clusterVars, holder, recalcs, sent, ncalls, idxVars>>

\* mu.Lock.
MuLock(t) ==
    /\ pc[t] = "lock"
    /\ call[t].method \in WriteMethods
    /\ muFree(mu)
    /\ mu' = [mu EXCEPT !.w = @ \cup {t}]
    /\ pc' = [pc EXCEPT ![t] = "held"]
    /\ UNCHANGED <<dataVars, call, last, ncalls, idxVars, objs, ilog>>

\* mu.RLock.
MuRLock(t) ==
    /\ pc[t] = "lock"
    /\ call[t].method \in ReadMethods
    /\ muFreeToRead(mu)
    /\ mu' = [mu EXCEPT !.r = @ \cup {t}]
    /\ pc' = [pc EXCEPT ![t] = "held"]
    /\ UNCHANGED <<dataVars, call, last, ncalls, idxVars, objs, ilog>>

\* The lookup i.fields[name] at the head of CreateField,
\* CreateFieldIfNotExists and DeleteField.
LkLookup(t) ==
    /\ pc[t] = "held"
    /\ call[t].method \in CreateMethods \cup DeleteMethods
    /\ call' = [call EXCEPT ![t] = [@ EXCEPT !.found = "f" \in DOMAIN fields["i"],
                                             !.obj = RegisteredObj("f")]]
    /\ pc' = [pc EXCEPT ![t] = "body"]
    /\ UNCHANGED <<dataVars, last, ncalls, idxVars, lockVars>>

\* Index.CreateField and Index.CreateFieldIfNotExists after their lookup.
LkCreate(t, m) ==
    /\ pc[t] = "body"
    /\ call[t].method = m
    /\ LET c == call[t]
       IN IF c.found
          THEN /\ UNCHANGED <<fields, dirs, objs>>
               /\ IF m = "CreateFieldIfNotExists"
                  THEN LkReturn(t, Nil, c.obj, FALSE)
                  ELSE LkReturn(t, ErrFieldExists, <<>>, FALSE)
          ELSE \E io \in CreateIo :
                 LET r == createField(fields["i"], dirs["i"], c.field, c.opt, io)
                 IN /\ fields' = [fields EXCEPT !["i"] = r.reg]
                    /\ dirs' = [dirs EXCEPT !["i"] = r.dd]
                    /\ objs' = IF r.err = Nil THEN objsWith(c.field, c.id) ELSE objs
                    /\ LkReturn(t, r.err, IF r.err = Nil THEN <<c.id>> ELSE <<>>,
                                r.err = Nil)
    /\ UNCHANGED <<views, frags>>

\* Index.DeleteField after its lookup.
LkDelete(t, m) ==
    /\ pc[t] = "body"
    /\ call[t].method = m
    /\ LET c == call[t]
       IN IF ~c.found
          THEN /\ UNCHANGED <<fields, dirs, views, frags, objs>>
               /\ LkReturn(t, Nil, <<>>, FALSE)
          ELSE \E io \in DeleteIo :
                 LET r == IndexDeleteField(fields["i"], dirs["i"], c.field, io)
                 IN /\ fields' = [fields EXCEPT !["i"] = r.reg]
                    /\ dirs' = [dirs EXCEPT !["i"] = r.dd]
                    /\ views' = IF r.removed THEN viewsWithout("i", c.field, "*")
                                ELSE views
                    /\ frags' = IF r.removed THEN fragsWithout("i", c.field, "*")
                                ELSE frags
                    /\ objs' = IF r.removed THEN objsWithout(c.field) ELSE objs
                    /\ LkReturn(t, r.err, <<>>, FALSE)

LkCreateField(t) ==
    \/ \E opt \in {NoOpt} : LkBegin(t, "CreateField", opt)
    \/ LkCreate(t, "CreateField")

LkCreateFieldIfNotExists(t) ==
    \/ \E opt \in {NoOpt} : LkBegin(t, "CreateFieldIfNotExists", opt)
    \/ LkCreate(t, "CreateFieldIfNotExists")

LkDeleteField(t) ==
    \/ LkBegin(t, "DeleteField", NoOpt)
    \/ LkDelete(t, "DeleteField")

\* The handler CreateField down to the return of Index.CreateField.
LkAPICreateField(t) ==
    \/ LkBeginAPI(t, apiCreateField, NoOpt)
    \/ LkCreate(t, apiCreateField)

\* The handler DeleteField down to the return of Index.DeleteField.
LkAPIDeleteField(t) ==
    \/ LkBeginAPI(t, apiDeleteField, NoOpt)
    \/ LkDelete(t, apiDeleteField)

\* Index.Close: every field is closed, then the registry is a new map.
LkClose(t) ==
    \/ LkBegin(t, "Close", NoOpt)
    \/ /\ pc[t] = "held"
       /\ call[t].method = "Close"
       /\ \E ok \in BOOLEAN :
           /\ fields' = IF ok THEN [fields EXCEPT !["i"] = NoFields] ELSE fields
           /\ objs' = IF ok THEN [n \in {} |-> <<>>] ELSE objs
           /\ LkReturn(t, IF ok THEN Nil ELSE ErrClosing, <<>>, FALSE)
       /\ UNCHANGED <<dirs, views, frags>>

\* Index.Open: openFields makes a Field of every directory and registers it,
\* with no lock taken.
LkOpen(t) ==
    \/ LkBegin(t, "Open", NoOpt)
    \/ /\ pc[t] = "open"
       /\ \E ok \in BOOLEAN :
           LET c == call[t]
               reg == fields["i"]
           IN /\ fields' = IF ok
                           THEN [fields EXCEPT !["i"] =
                                   [n \in DOMAIN reg \cup dirs["i"] |->
                                      IF n \in DOMAIN reg /\ n \notin dirs["i"]
                                      THEN reg[n] ELSE NoOpt]]
                           ELSE fields
              /\ objs' = IF ok
                         THEN [n \in DOMAIN objs \cup dirs["i"] |->
                                 IF n \in dirs["i"] THEN <<c.id>> ELSE objs[n]]
                         ELSE objs
              /\ LkReturn(t, IF ok THEN Nil ELSE ErrOpening, <<>>, ok /\ dirs["i"] # {})
       /\ UNCHANGED <<dirs, views, frags>>

\* Field, Fields, Options and MaxSlice: the read under the read lock.
LkRead(t, m) ==
    \/ LkBegin(t, m, NoOpt)
    \/ /\ pc[t] = "held"
       /\ call[t].method = m
       /\ LkReturn(t, Nil,
                   CASE m = "Field" -> RegisteredObj("f")
                     [] m = "Fields" -> <<{RegisteredObj(n) : n \in DOMAIN fields["i"]}>>
                     [] m = "MaxSlice" ->
                          <<IndexMaxSliceOf(TRUE, remoteMaxSlice["i"],
                                            DOMAIN fields["i"], frags, "i")>>
                     [] m = "Options" -> <<>>,
                   FALSE)
       /\ UNCHANGED <<fields, dirs, views, frags, objs>>

LkField(t) == LkRead(t, "Field")

LkFields(t) == LkRead(t, "Fields")

LkOptions(t) == LkRead(t, "Options")

LkMaxSlice(t) == LkRead(t, "MaxSlice")

\* ------------------------------------------------- the ungated read methods
\* The build's version string, as its characters.
Version == <<"v", "1", ".", "0">>

\* strings.TrimPrefix.
TrimPrefix(str, prefix) ==
    IF Len(str) >= Len(prefix) /\ SubSeq(str, 1, Len(prefix)) = prefix
    THEN SubSeq(str, Len(prefix) + 1, Len(str))
    ELSE str

InfoMethods == {"Schema", "Hosts", "State", "Version", "LocalID"}

\* What each method reads: Holder.Schema, Cluster.Nodes, Cluster.State, the
\* version without its "v", Cluster.Node.ID.
infoValue(m) ==
    CASE m = "Schema" -> <<holder, fields, views>>
      [] m = "Hosts" -> <<nodes>>
      [] m = "State" -> <<clusterState>>
      [] m = "Version" -> <<TrimPrefix(Version, <<"v">>)>>
      [] m = "LocalID" -> <<LocalID>>

\* Read methods that go through the gate as Views does.
infoGated(m) ==
    IF validate(apiViews) # Nil
    THEN [err |-> validate(apiViews), val |-> <<>>]
    ELSE [err |-> Nil, val |-> infoValue(m)]

\* What Schema, Hosts, State, Version and LocalID return: none of them calls
\* validate, none has an error result.
info(m) == [err |-> Nil, val |-> infoValue(m)]

InfoCall(m) ==
    /\ ret' = [NoRet EXCEPT !.op = m, !.err = info(m).err, !.val = info(m).val]
    /\ UNCHANGED <<clusterVars, storeVars, sent, pc, call, last, ncalls, remoteMaxSlice, lockVars>>

Schema == InfoCall("Schema")

Hosts == InfoCall("Hosts")

State == InfoCall("State")

APIVersion == InfoCall("Version")

APILocalID == InfoCall("LocalID")

\* --------------------------------------------------------- import timestamps
\* Go's integer division, which truncates towards zero.
quo(a, b) == IF a >= 0 THEN a \div b ELSE -((-a) \div b)

\* time.Unix(sec, nsec): the nanoseconds are brought into [0, 1s).
timeUnix(sec, nsec) ==
    IF nsec < 0 \/ nsec >= NanosPerSecond
    THEN LET n == quo(nsec, NanosPerSecond)
             ns == nsec - n * NanosPerSecond
         IN IF ns < 0
            THEN [sec |-> sec + n - 1, nsec |-> ns + NanosPerSecond]
            ELSE [sec |-> sec + n, nsec |-> ns]
    ELSE [sec |-> sec, nsec |-> nsec]

\* Time.UnixNano.
timeUnixNano(t) == t.sec * NanosPerSecond + t.nsec

\* A conversion that leaves the zero timestamps out of its result.
importTimestampsCompacted(ts) ==
    LET keep == SelectSeq(ts, LAMBDA x : x # 0)
    IN [j \in 1..Len(keep) |-> <<timeUnix(0, keep[j])>>]

\* The loop of API.Import over req.Timestamps: a nil pointer where the
\* timestamp is 0, the time elsewhere.
importTimestamps(ts) ==
    [j \in 1..Len(ts) |-> IF ts[j] = 0 THEN <<>> ELSE <<timeUnix(0, ts[j])>>]

TimestampArrays ==
    UNION { [1..n -> (-MaxTimestamp)..MaxTimestamp] : n \in 0..MaxTimestamps }

\* The node and the timestamps of an import request.
InitImport ==
    /\ InitNode
    /\ \E ts \in TimestampArrays : ret = [NoRet EXCEPT !.arg = ts]

\* API.Import up to the call of Field.Import: val is the timestamps it hands
\* to it.
ImportTimestamps ==
    /\ \E slice \in Slices :
        LET verr == validate(apiImport)
            ferr == indexField("i", "f", slice).err
            err == IF verr # Nil THEN verr ELSE ferr
        IN ret' = [ret EXCEPT !.op = apiImport, !.name = "f", !.n = slice,
                              !.err = err,
                              !.val = IF err = Nil THEN <<importTimestamps(ret.arg)>>
                                      ELSE <<>>]
    /\ UNCHANGED <<clusterVars, storeVars, sent, pc, call, last, ncalls, remoteMaxSlice, lockVars>>

\* -------------------------------------------------------------- ownership
\* The ownership function under membership changes and replication factors.
OwnerNodeIDs == 1..(NumNodes + 1)
ReplicaNs == 1..MaxReplicaN

\* A node joins, a node leaves.
OwnersNodeJoin ==
    /\ \E id \in OwnerNodeIDs \ nodes : nodes' = nodes \cup {id}
    /\ UNCHANGED <<clusterState, coordinator, jobs, storeVars, sent, pc, call, last,
                   ncalls, idxVars, lockVars>>

OwnersNodeLeave ==
    /\ \E id \in nodes : nodes' = nodes \ {id}
    /\ UNCHANGED <<clusterState, coordinator, jobs, storeVars, sent, pc, call, last,
                   ncalls, idxVars, lockVars>>

\* Cluster.sliceNodes(index, slice) and Cluster.ownsSlice(n, index, slice) for
\* every node id n, on the members as they are.
OwnersSliceNodes ==
    /\ \E r \in ReplicaNs, index \in IndexInputs, slice \in Slices :
        ret' = [NoRet EXCEPT
                  !.op = "sliceNodes", !.name = index, !.n = slice, !.replicaN = r,
                  !.members = nodes,
                  !.val = sliceNodesList(nodes, r, index, slice),
                  !.owns = { n \in OwnerNodeIDs :
                               ownsSliceIn(nodes, r, n, index, slice) }]
    /\ UNCHANGED <<clusterVars, storeVars, sent, pc, call, last, ncalls, remoteMaxSlice, lockVars>>

\* ------------------------------------------------------------ specification
Next ==
    \/ \E t \in Threads :
        \/ CreateIndex(t)
        \/ DeleteIndex(t)
        \/ CreateField(t)
        \/ DeleteField(t)
        \/ DeleteView(t)
        \/ RecalculateCaches(t)
        \/ Import(t)
        \/ ImportValue(t)
        \/ ExportCSV(t)
        \/ UnmarshalFragment(t)
        \/ MarshalFragment(t)
        \/ FragmentBlocks(t)
        \/ FragmentBlockData(t)
        \/ Views(t)
        \/ Index(t)
        \/ IndexAttrDiff(t)
        \/ FieldAttrDiff(t)
        \/ SliceNodes(t)
        \/ Query(t)
        \/ RemoveNode(t)
        \/ ResizeAbort(t)
        \/ SetCoordinator(t)
        \/ ClusterMessage(t)
        \/ SendSync(t)
        \/ SendTo(t)
    \/ ResizeJobDone
    \/ ClusterFormed

Spec == Init /\ [][Next]_vars

\* The schema mutations alone, from any thread.
NextSchema ==
    \/ \E t \in Threads :
        \/ CreateIndex(t)
        \/ DeleteIndex(t)
        \/ CreateField(t)
        \/ DeleteField(t)
        \/ DeleteView(t)
        \/ RecalculateCaches(t)
        \/ UnmarshalFragment(t)
        \/ SendSync(t)
    \/ ClusterFormed

SpecSchema == Init /\ [][NextSchema]_vars

\* Imports and queries against node removal and resize abort.
NextResize ==
    \/ \E t \in Threads :
        \/ Import(t)
        \/ ImportValue(t)
        \/ Query(t)
        \/ RemoveNode(t)
        \/ ResizeAbort(t)
    \/ ResizeJobDone
    \/ ClusterFormed

SpecResize == Init /\ [][NextResize]_vars

\* One caller at a time, every method.
NextSeq ==
    \/ \E t \in {1} :
        \/ CreateIndex(t)
        \/ DeleteIndex(t)
        \/ CreateField(t)
        \/ DeleteField(t)
        \/ DeleteView(t)
        \/ RecalculateCaches(t)
        \/ Import(t)
        \/ ImportValue(t)
        \/ ExportCSV(t)
        \/ UnmarshalFragment(t)
        \/ MarshalFragment(t)
        \/ FragmentBlocks(t)
        \/ FragmentBlockData(t)
        \/ Views(t)
        \/ Index(t)
        \/ IndexAttrDiff(t)
        \/ FieldAttrDiff(t)
        \/ SliceNodes(t)
        \/ Query(t)
        \/ RemoveNode(t)
        \/ ResizeAbort(t)
        \/ SetCoordinator(t)
        \/ ClusterMessage(t)
        \/ SendSync(t)
        \/ SendTo(t)
    \/ ResizeJobDone
    \/ ClusterFormed

SpecSeq == Init /\ [][NextSeq]_vars

\* One Index under direct calls, each under the index's lock.
NextIndex ==
    \/ IdxCreateField
    \/ IdxCreateFieldIfNotExists
    \/ IdxDeleteField
    \/ IdxField
    \/ IdxMaxSlice
    \/ IdxSetRemoteMaxSlice
    \/ IdxFieldWrite

SpecIndex == Init /\ [][NextIndex]_vars

\* The attribute diff of an index and of a field.
NextAttr ==
    \/ AttrIndexAttrDiff
    \/ AttrFieldAttrDiff
    \/ ClusterFormed

SpecAttr == InitAttr /\ [][NextAttr]_vars

\* The broadcast schema mutations of one index and its fields, from any thread.
NextOrder ==
    \/ \E t \in Threads :
        \/ CreateIndex(t)
        \/ CreateField(t)
        \/ DeleteField(t)
        \/ SendSync(t)
    \/ ClusterFormed

SpecOrder == Init /\ [][NextOrder]_vars

\* The calls on one index, each a thread of its own, and the two handlers
\* that broadcast after them.
NextLock ==
    \/ \E t \in Threads :
        \/ LkField(t)
        \/ LkFields(t)
        \/ LkOptions(t)
        \/ LkMaxSlice(t)
        \/ LkCreateField(t)
        \/ LkCreateFieldIfNotExists(t)
        \/ LkDeleteField(t)
        \/ LkClose(t)
        \/ LkOpen(t)
        \/ LkAPICreateField(t)
        \/ LkAPIDeleteField(t)
        \/ MuLock(t)
        \/ MuRLock(t)
        \/ LkLookup(t)
        \/ SendSync(t)
    \/ ClusterFormed

SpecLock == Init /\ [][NextLock]_vars

\* Creations of one field, and lookups of it, from any thread.
NextCreate ==
    \/ \E t \in Threads :
        \/ LkCreateField(t)
        \/ LkCreateFieldIfNotExists(t)
        \/ LkField(t)
        \/ MuLock(t)
        \/ MuRLock(t)
        \/ LkLookup(t)

SpecCreate == Init /\ [][NextCreate]_vars

\* Coordinator changes, with a broadcast of another handler among them.
NextCoord ==
    \/ \E t \in Threads :
        \/ SetCoordinator(t)
        \/ SendTo(t)
        \/ CreateIndex(t)
        \/ SendSync(t)
    \/ ClusterFormed

SpecCoord == InitCoord /\ [][NextCoord]_vars

\* The ungated read methods while the schema and the cluster change.
NextInfo ==
    \/ Schema
    \/ Hosts
    \/ State
    \/ APIVersion
    \/ APILocalID
    \/ \E t \in Threads :
        \/ CreateIndex(t)
        \/ CreateField(t)
        \/ RemoveNode(t)
        \/ ResizeAbort(t)
        \/ SendSync(t)
    \/ ResizeJobDone
    \/ ClusterFormed

SpecInfo == Init /\ [][NextInfo]_vars

\* The timestamps of an import.
NextImport ==
    \/ ImportTimestamps
    \/ ClusterFormed

SpecImport == InitImport /\ [][NextImport]_vars

\* The ownership function alone.
NextOwners ==
    \/ OwnersNodeJoin
    \/ OwnersNodeLeave
    \/ OwnersSliceNodes

SpecOwners == Init /\ [][NextOwners]_vars

\* ------------------------------------------------------------------ claims
\* The calls in flight and the one that returned last.
Calls == {call[t] : t \in Threads} \cup {last}

\* C1: in each of STARTING, NORMAL and RESIZING validate lets a method through
\* iff it is in the common set {ClusterMessage, MarshalFragment,
\* SetCoordinator} or in the set of the state (none for STARTING, the normal
\* set for NORMAL, {ResizeAbort} for RESIZING), and fails with the
\* method-not-allowed error otherwise; every call is let in or turned away
\* accordingly, on the state its validate read.
C1_GateFollowsTable ==
    LET commonSet == {"ClusterMessage", "MarshalFragment", "SetCoordinator"}
        normalSet ==
            {"CreateField", "CreateIndex", "DeleteField", "DeleteIndex", "DeleteView",
             "ExportCSV", "FragmentBlockData", "FragmentBlocks", "FieldAttrDiff",
             "Import", "ImportValue", "Index", "IndexAttrDiff", "Query",
             "RecalculateCaches", "RemoveNode", "SliceNodes", "UnmarshalFragment",
             "Views"}
        stateSet(S) ==
            CASE S = "STARTING" -> {}
              [] S = "NORMAL" -> normalSet
              [] S = "RESIZING" -> {"ResizeAbort"}
        allowed(S) == commonSet \cup stateSet(S)
    IN /\ \A S \in {"STARTING", "NORMAL", "RESIZING"}, M \in apiMethods :
            /\ (validateIn(S, M) = Nil) <=> (M \in allowed(S))
            /\ validateIn(S, M) \in {Nil, ErrMethodNotAllowed}
       /\ \A c \in Calls :
            c.method # "none" =>
                /\ (c.err # ErrMethodNotAllowed) <=> (c.method \in allowed(c.state))
       /\ \A t \in Threads : pc[t] # "idle" => call[t].method \in allowed(call[t].state)

\* A Query turned away in RESIZING, and in the same run the gate open to it again.
C1_Witness ==
    /\ last.method = apiQuery
    /\ last.state = ClusterStateResizing
    /\ last.err = ErrMethodNotAllowed

\* C2: a fragment for slice s of an index is created or changed only by a
\* step taken while the local node is among the owners of (index, s).
C2_FragmentsOnlyOnOwnedSlices ==
    [][ \A k \in DOMAIN frags' :
          (k \notin DOMAIN frags \/ frags'[k] # frags[k])
              => ownsSlice(LocalID, k[1], k[4]) ]_vars

\* What the local step of the call c leaves to look up, for the five schema
\* mutations: the created thing is there, the deleted thing is gone.
Observable(c, h, fs, vs) ==
    CASE c.method = apiCreateIndex -> c.index \in h
      [] c.method = apiDeleteIndex -> c.index \notin h
      [] c.method = apiCreateField -> c.index \in h /\ c.field \in DOMAIN fs[c.index]
      [] c.method = apiDeleteField -> c.index \in h /\ c.field \notin DOMAIN fs[c.index]
      [] c.method = apiDeleteView -> <<c.index, c.field, c.view>> \notin vs
      [] OTHER -> TRUE

\* C3: CreateIndex, DeleteIndex, CreateField, DeleteField and DeleteView get
\* to their SendSync only from a local step that returned no error (or, for
\* DeleteView, ErrInvalidView), that step leaves its effect to be looked up,
\* and no SendSync is attempted before it or after its error.
C3_LocalMutationBeforeSendSync ==
    [][ \A t \in Threads :
          LET c == call[t]
              tolerated == c.method = apiDeleteView /\ call'[t].lerr = ErrInvalidView
          IN /\ (c.method \in broadcasts /\ pc[t] = "local" /\ pc'[t] = "send")
                  => /\ call'[t].lerr = Nil \/ tolerated
                     /\ call'[t].applied \/ tolerated
                     /\ ~call'[t].tried
                     /\ Observable(c, holder', fields', views')
             /\ (c.method \in broadcasts /\ pc[t] = "local" /\ pc'[t] = "idle")
                  => /\ last'.lerr # Nil
                     /\ ~last'.tried
             /\ (c.method \in broadcasts /\ pc[t] = "send" /\ pc'[t] # "send")
                  => /\ c.applied \/ (c.method = apiDeleteView /\ c.lerr = ErrInvalidView)
                     /\ last'.tried
             /\ (c.method \in broadcasts /\ pc[t] = "idle" /\ pc'[t] # "idle")
                  => pc'[t] = "local" ]_vars

\* A CreateField that registered its field and then sent its message.
C3_Witness ==
    /\ last.method = apiCreateField
    /\ last.applied
    /\ last.tried
    /\ last.err = Nil

\* C4: a RecalculateCaches that has returned after attempting its SendSync,
\* failed or not, has done the local recalculation.
C4_RecalculateLocallyFirst ==
    (last.method = apiRecalculateCaches /\ last.tried) => last.applied

\* C5: when the SendSync of CreateIndex, DeleteIndex, CreateField, DeleteField
\* or DeleteView fails, the call returns an error and nothing is rolled back:
\* the holder and the registries are as the local step left them, the created
\* index or field still there and the deleted one still gone when the call
\* returns.
C5_SendFailureKeepsLocalMutation ==
    [][ \A t \in Threads :
          (/\ call[t].method \in broadcasts
           /\ pc[t] = "send"
           /\ pc'[t] = "idle"
           /\ last'.serr # Nil)
          => /\ last'.err # Nil
             /\ storeVars' = storeVars
             /\ call[t].applied => Observable(call[t], holder', fields', views') ]_vars

\* A CreateField whose broadcast failed, with its field in the registry.
C5_Witness ==
    /\ last.method = apiCreateField
    /\ last.applied
    /\ last.serr = ErrSend
    /\ last.err # Nil
    /\ HolderField("i", "f")

\* The errors of the gate, of validation and of lookups.
FailFastErrors ==
    { ErrMethodNotAllowed, ErrName, ErrFieldNameRequired, ErrInvalidCacheType,
      ErrInvalidOptions, ErrInitializing, ErrIndexExists, ErrFieldExists,
      ErrIndexNotFound, ErrFieldNotFound, ErrFragmentNotFound, ErrNodeIDNotExists }

\* C6: a call that fails with the method-not-allowed error, a validation
\* error or a not-found error has changed neither the holder, nor a registry,
\* nor the cluster, and has handed no message to the Broadcaster.
C6_FailFastChangesNothing ==
    \A c \in Calls :
        (c.method # "none" /\ c.err \in FailFastErrors) => (~c.mutated /\ ~c.tried)

\* A CreateField turned down because the field exists.
C6_Witness ==
    /\ last.method = apiCreateField
    /\ last.err = ErrFieldExists
    /\ ~last.mutated

\* C7: the local step of Import, ImportValue and ExportCSV for a slice the
\* local node does not own returns ErrClusterDoesNotOwnSlice whether or not
\* the index, the field and the fragment exist, looks none of them up and
\* changes nothing.
C7_OwnershipCheckedFirst ==
    [][ \A t \in Threads :
          LET c == call[t]
          IN (/\ c.method \in {apiImport, apiImportValue, apiExportCSV}
              /\ pc[t] = "local"
              /\ pc'[t] # "local"
              /\ ~ownsSlice(LocalID, c.index, c.slice))
             => /\ last'.err = ErrClusterDoesNotOwnSlice
                /\ ~last'.looked
                /\ ~last'.mutated
                /\ dataVars' = dataVars ]_vars

\* An Import for a slice of another node, into an index that is not there.
C7_Witness ==
    /\ last.method = apiImport
    /\ last.err = ErrClusterDoesNotOwnSlice
    /\ ~HolderIndex(last.index)
    /\ ~last.looked

\* C8: no Import or ImportValue writes into a field while the cluster state
\* is RESIZING.
C8_NoImportWriteWhileResizing ==
    [][ \A t \in Threads :
          (/\ call[t].method \in {apiImport, apiImportValue}
           /\ pc[t] = "local"
           /\ pc'[t] = "idle"
           /\ last'.applied)
          => clusterState # ClusterStateResizing ]_vars

\* C9: a Query whose validate reads RESIZING fails with the method-not-allowed
\* error; the ResizeAbort that finds the cluster RESIZING succeeds, leaves the
\* job in flight aborted and the cluster NORMAL; a Query whose validate reads
\* NORMAL is through the gate.
C9_AbortReopensTheGate ==
    [][ /\ \A c \in {call'[t] : t \in Threads} \cup {last'} :
            c.method = apiQuery =>
                /\ c.state = ClusterStateResizing => c.err = ErrMethodNotAllowed
                /\ c.state = ClusterStateNormal => c.err # ErrMethodNotAllowed
        /\ \A t \in Threads :
            (/\ call[t].method = apiResizeAbort
             /\ pc[t] = "local"
             /\ pc'[t] = "idle"
             /\ clusterState = ClusterStateResizing)
            => /\ last'.err = Nil
               /\ currentJob # 0
               /\ jobs'[currentJob].state = resizeJobStateAborted
               /\ \A j \in 1..Len(jobs') : jobs'[j].state # resizeJobStateRunning
               /\ clusterState' = ClusterStateNormal
               /\ validateIn(clusterState', apiQuery) = Nil ]_vars

\* A Query through the gate after a resize job was aborted.
C9_Witness ==
    /\ last.method = apiQuery
    /\ last.state = ClusterStateNormal
    /\ last.err = Nil
    /\ \E j \in 1..Len(jobs) : jobs[j].state = resizeJobStateAborted
    /\ clusterState = ClusterStateNormal

C13_CreateFieldOnExistingName ==
    [][ (ret'.op = "CreateField" /\ HolderIndex("i")) =>
          LET reg == fields["i"]
              name == ret'.name
          IN /\ name \in DOMAIN reg =>
                  /\ ret'.err = ErrFieldExists
                  /\ ret'.val = <<>>
                  /\ storeVars' = storeVars
             /\ name \notin DOMAIN reg =>
                  /\ ret'.err # ErrFieldExists
                  /\ ret'.err = Nil =>
                       /\ IndexField(fields'["i"], name) = ret'.val
                       /\ ret'.val = <<ret'.opt>>
                       /\ \A n \in DOMAIN reg :
                            IndexField(fields'["i"], n) = IndexField(reg, n)
                  /\ ret'.err # Nil => fields' = fields ]_vars

\* A CreateField turned down for its name, the field as it was.
C13_Witness ==
    /\ ret.op = "CreateField"
    /\ ret.err = ErrFieldExists
    /\ ret.name = "f"
    /\ ret.opt.cacheType = ""
    /\ IndexField(fields["i"], "f") = <<[cacheType |-> "ranked", valid |-> TRUE]>>

\* C14: Index.CreateFieldIfNotExists on a name that is in the registry returns
\* the field registered under it and no error, whatever options it is passed,
\* and changes nothing; a second call after a successful one returns the same
\* field and leaves the registry and the directories as the first left them.
C14_CreateFieldIfNotExistsIdempotent ==
    [][ (ret'.op = "CreateFieldIfNotExists" /\ HolderIndex("i")) =>
          LET reg == fields["i"]
              name == ret'.name
          IN /\ name \in DOMAIN reg =>
                  /\ ret'.err = Nil
                  /\ ret'.val = <<reg[name]>>
                  /\ storeVars' = storeVars
             /\ ret'.err = Nil =>
                  \A opt2 \in OptInputs, io2 \in CreateIo :
                     LET r2 == IndexCreateFieldIfNotExists(fields'["i"], dirs'["i"],
                                                           name, opt2, io2)
                     IN /\ r2.err = Nil
                        /\ r2.reg = fields'["i"]
                        /\ r2.dd = dirs'["i"]
                        /\ <<r2.reg[name]>> = ret'.val ]_vars

\* The field found and returned, with other options than those passed.
C14_Witness ==
    /\ ret.op = "CreateFieldIfNotExists"
    /\ ret.name = "f"
    /\ "f" \in DOMAIN ret.before
    /\ ret.err = Nil
    /\ ret.opt.cacheType = ""
    /\ ret.val = <<[cacheType |-> "ranked", valid |-> TRUE]>>

\* C15: Index.DeleteField on a name that is not in the registry returns no
\* error and changes nothing; on a registered name, when it returns no error,
\* the registry entry and the directory of the field are gone and the other
\* fields are as they were; a second DeleteField of the name returns no error
\* and changes nothing.
C15_DeleteFieldTwice ==
    [][ (ret'.op = "DeleteField" /\ HolderIndex("i")) =>
          LET reg == fields["i"]
              name == ret'.name
          IN /\ name \notin DOMAIN reg =>
                  /\ ret'.err = Nil
                  /\ storeVars' = storeVars
             /\ (name \in DOMAIN reg /\ ret'.err = Nil) =>
                  /\ name \notin DOMAIN fields'["i"]
                  /\ name \notin dirs'["i"]
                  /\ \A n \in DOMAIN reg \ {name} :
                       IndexField(fields'["i"], n) = IndexField(reg, n)
             /\ ret'.err = Nil =>
                  \A io2 \in DeleteIo :
                     LET r2 == IndexDeleteField(fields'["i"], dirs'["i"], name, io2)
                     IN /\ r2.err = Nil
                        /\ ~r2.removed
                        /\ r2.reg = fields'["i"]
                        /\ r2.dd = dirs'["i"] ]_vars

\* A registered field deleted, entry and directory.
C15_Witness ==
    /\ ret.op = "DeleteField"
    /\ ret.name = "f"
    /\ "f" \in DOMAIN ret.before
    /\ ret.err = Nil
    /\ "f" \notin DOMAIN fields["i"]
    /\ "f" \notin dirs["i"]

\* C16: API.DeleteField returns ErrIndexNotFound, and does no more, when the
\* index is not found; when the index is there and the field is not, it
\* returns no error, changes nothing and hands no message to the Broadcaster.
C16_DeleteFieldOfMissingFieldDoesNothing ==
    [][ \A t \in Threads :
          LET c == call[t]
          IN (c.method = apiDeleteField /\ pc[t] = "local" /\ pc'[t] # "local") =>
               /\ ~HolderIndex(c.index) =>
                    /\ pc'[t] = "idle"
                    /\ last'.err = ErrIndexNotFound
                    /\ dataVars' = dataVars
               /\ (HolderIndex(c.index) /\ c.field \notin DOMAIN fields[c.index]) =>
                    /\ pc'[t] = "idle"
                    /\ last'.err = Nil
                    /\ ~last'.tried
                    /\ dataVars' = dataVars ]_vars

\* C17: API.DeleteIndex on an index name that is not found returns no error,
\* changes nothing and hands no message to the Broadcaster.
C17_DeleteIndexOfMissingIndexDoesNothing ==
    [][ \A t \in Threads :
          LET c == call[t]
          IN (/\ c.method = apiDeleteIndex
              /\ pc[t] = "local"
              /\ pc'[t] # "local"
              /\ ~HolderIndex(c.index))
             => /\ pc'[t] = "idle"
                /\ last'.err = Nil
                /\ ~last'.tried
                /\ dataVars' = dataVars ]_vars

\* C18: API.DeleteView on a field that is there: when the field has no such
\* view the local step returns ErrInvalidView, changes nothing and the handler
\* goes on to its SendSync; the DeleteView message is handed to the
\* Broadcaster and the call returns what SendSync returned, nil when it went
\* well; any other error of the local step is returned with no SendSync.
C18_DeleteViewToleratesMissingView ==
    [][ \A t \in Threads :
          LET c == call[t]
          IN c.method = apiDeleteView =>
               /\ (pc[t] = "local" /\ pc'[t] # "local" /\ HolderField(c.index, c.field)) =>
                    /\ <<c.index, c.field, c.view>> \notin views =>
                         /\ pc'[t] = "send"
                         /\ call'[t].lerr = ErrInvalidView
                         /\ dataVars' = dataVars
                    /\ pc'[t] = "send" => call'[t].lerr \in {Nil, ErrInvalidView}
                    /\ pc'[t] = "idle" =>
                         /\ last'.lerr \notin {Nil, ErrInvalidView}
                         /\ last'.err = last'.lerr
                         /\ ~last'.tried
                         /\ sent' = sent
               /\ (pc[t] = "send" /\ pc'[t] = "idle") =>
                    /\ Len(sent') = Len(sent) + 1
                    /\ sent'[Len(sent')].type = apiDeleteView
                    /\ sent'[Len(sent')].index = c.index
                    /\ sent'[Len(sent')].field = c.field
                    /\ sent'[Len(sent')].view = c.view
                    /\ last'.tried
                    /\ last'.err = last'.serr ]_vars

\* A DeleteView of a view the field does not have, broadcast and returned nil.
C18_Witness ==
    /\ last.method = apiDeleteView
    /\ last.lerr = ErrInvalidView
    /\ last.tried
    /\ last.serr = Nil
    /\ last.err = Nil
    /\ Len(sent) > 0
    /\ sent[Len(sent)].type = apiDeleteView

\* The largest of a non-empty set of numbers.
SetMax(S) == CHOOSE m \in S : \A x \in S : x <= m

\* C19: Index.MaxSlice() returns the largest of remoteMaxSlice and the
\* MaxSlice of every field in the registry, which is remoteMaxSlice when
\* there is no field; on a nil index it returns 0.
C19_MaxSliceIsTheMaximum ==
    ret.op = "MaxSlice" =>
        IF ~HolderIndex(ret.name)
        THEN ret.val = <<0>>
        ELSE LET reg == fields[ret.name]
                 all == {remoteMaxSlice[ret.name]}
                          \cup { FieldMaxSliceIn(frags, ret.name, f) : f \in DOMAIN reg }
             IN /\ ret.val = <<SetMax(all)>>
                /\ DOMAIN reg = {} => ret.val = <<remoteMaxSlice[ret.name]>>

\* Two fields, the remote value below the max slice of one of them.
C19_Witness ==
    /\ ret.op = "MaxSlice"
    /\ ret.name = "i"
    /\ HolderIndex("i")
    /\ DOMAIN fields["i"] = {"f", "g"}
    /\ remoteMaxSlice["i"] = 0
    /\ FieldMaxSliceIn(frags, "i", "f") = 0
    /\ FieldMaxSliceIn(frags, "i", "g") = 1
    /\ ret.val = <<1>>

\* C20: SetRemoteMaxSlice never lowers remoteMaxSlice, so that with the
\* fields and their data unchanged Index.MaxSlice() does not decrease.
C20_RemoteMaxSliceNeverLowered ==
    [][ (HolderIndex("i") /\ holder' = holder /\ fields' = fields /\ frags' = frags) =>
          /\ remoteMaxSlice'["i"] >= remoteMaxSlice["i"]
          /\ IndexMaxSliceOf(TRUE, remoteMaxSlice'["i"], DOMAIN fields'["i"], frags', "i")
               >= IndexMaxSliceOf(TRUE, remoteMaxSlice["i"], DOMAIN fields["i"], frags, "i")
      ]_vars

\* C21: IndexAttrDiff and FieldAttrDiff, when they return no error, return
\* the local id -> attributes of exactly the ids in blocks that differ between
\* the local store and the peer or are on one side only, and nothing of any
\* other block; the same block summary on both sides gives an empty result.
C21_AttrDiffReturnsMismatchedBlocks ==
    (ret.op \in {apiIndexAttrDiff, apiFieldAttrDiff} /\ ret.err = Nil) =>
        LET inBlock(st, b) == { x \in DOMAIN st : x \div AttrBlockSize = b }
            differs(b) ==
                \/ inBlock(ret.store, b) # inBlock(ret.peer, b)
                \/ \E x \in inBlock(ret.store, b) : ret.store[x] # ret.peer[x]
            want == { x \in DOMAIN ret.store : differs(x \div AttrBlockSize) }
        IN /\ DOMAIN ret.val = want
           /\ \A x \in want : ret.val[x] = ret.store[x]
           /\ AttrStoreBlocks(ret.store) = AttrStoreBlocks(ret.peer) => ret.val = <<>>

\* Two blocks on both sides, one of them different: the local data of that one.
C21_Witness ==
    /\ ret.op = apiIndexAttrDiff
    /\ ret.err = Nil
    /\ DOMAIN ret.store = {0, 1, 2, 3}
    /\ DOMAIN ret.peer = {0, 1, 2, 3}
    /\ DOMAIN ret.val = {2, 3}
    /\ ret.store[3] # ret.peer[3]
    /\ ret.store[2] = ret.peer[2]

\* C22: the timestamps Import hands to Field.Import are as many as those of
\* the request; position j has no time when the request's timestamp j is 0,
\* and otherwise the time that is that many nanoseconds after the epoch, its
\* nanosecond part within the second.
C22_TimestampsConvertedByPosition ==
    (ret.op = apiImport /\ ret.err = Nil) =>
        LET out == ret.val[1]
        IN /\ Len(out) = Len(ret.arg)
           /\ \A j \in 1..Len(ret.arg) :
                IF ret.arg[j] = 0 THEN out[j] = <<>>
                ELSE /\ Len(out[j]) = 1
                     /\ timeUnixNano(out[j][1]) = ret.arg[j]
                     /\ out[j][1].nsec \in 0..(NanosPerSecond - 1)

\* A zero first, then a time before the epoch.
C22_Witness ==
    /\ ret.op = apiImport
    /\ ret.err = Nil
    /\ ret.arg = <<0, -4>>
    /\ ret.val[1][1] = <<>>
    /\ ret.val[1][2] = <<[sec |-> -2, nsec |-> 2]>>

\* C23: no step of an Import or ImportValue call, from its gate to its
\* return and whatever it returns, sends a message, and the call never comes
\* to wait in a send.
C23_ImportsSendNothing ==
    [][\A t \in Threads :
         /\ call'[t].method \in {apiImport, apiImportValue} => pc'[t] # "send"
         /\ (pc'[t] # pc[t] /\ (call[t].method \in {apiImport, apiImportValue}
                                \/ call'[t].method \in {apiImport, apiImportValue}))
            => sent' = sent]_vars

\* An import that succeeded on a node that has sent the messages of the
\* schema it imports into.
C23_Witness ==
    /\ last.method \in {apiImport, apiImportValue}
    /\ last.err = Nil
    /\ last.mutated
    /\ Len(sent) = 2

\* C24: a call of Schema, Hosts, State, Version or LocalID returns its result
\* with no error in whatever state the cluster is (the schema of the holder,
\* the nodes of the cluster, the cluster's state, the version without its
\* "v", the local node's id), and changes nothing of the node; every one of
\* them can be called in every state.
C24_ReadMethodsAreNotGated ==
    [][/\ \A m \in InfoMethods : ENABLED InfoCall(m)
       /\ ret' # ret =>
            /\ ret'.op \in InfoMethods
            /\ ret'.err = Nil
            /\ ret'.op = "Schema" => ret'.val = <<holder, fields, views>>
            /\ ret'.op = "Hosts" => ret'.val = <<nodes>>
            /\ ret'.op = "State" => ret'.val = <<clusterState>>
            /\ ret'.op = "Version" => ret'.val = <<<<"1", ".", "0">>>>
            /\ ret'.op = "LocalID" => ret'.val = <<LocalID>>
            /\ UNCHANGED <<clusterVars, storeVars, sent, pc, call, last, ncalls>>]_vars

\* State called while the cluster is resizing, on a node with a schema.
C24_Witness ==
    /\ ret.op = "State"
    /\ ret.err = Nil
    /\ ret.val = <<ClusterStateResizing>>
    /\ clusterState = ClusterStateResizing
    /\ holder # {}

\* C27: the local step of SetCoordinator(id) returns ErrNodeIDNotExists,
\* with the coordinator as it was and no send to come, when id is no member;
\* makes id the coordinator and returns, with no send, when id is the local
\* node; leaves the coordinator as it was and goes on to send when id is
\* another member. The send appends one SetCoordinator message addressed to id
\* and returns, and no step of the call sends otherwise.
C27_SetCoordinatorLocalOrPointToPoint ==
    [][\A t \in Threads :
         (call[t].method = apiSetCoordinator /\ pc'[t] # pc[t]) =>
            LET id == call[t].node
            IN IF pc[t] = "local"
               THEN /\ sent' = sent
                    /\ IF nodeByID(id) = 0
                       THEN /\ pc'[t] = "idle"
                            /\ last'.err = ErrNodeIDNotExists
                            /\ coordinator' = coordinator
                       ELSE IF id = LocalID
                       THEN /\ pc'[t] = "idle"
                            /\ last'.err = Nil
                            /\ coordinator' = LocalID
                       ELSE /\ pc'[t] = "send"
                            /\ coordinator' = coordinator
               ELSE /\ pc[t] = "send"
                    /\ pc'[t] = "idle"
                    /\ sent' = Append(sent, [type |-> apiSetCoordinator, index |-> "",
                                             field |-> "", view |-> "", to |-> id])
                    /\ id \in nodes \ {LocalID}
                    /\ coordinator' = coordinator]_vars

\* The local node, which is the coordinator, has told the other node to be
\* it in its second call: one message, addressed to that node, and the record
\* is still the local node.
C27_Witness ==
    /\ last.method = apiSetCoordinator
    /\ last.node = 2
    /\ last.err = Nil
    /\ coordinator = LocalID
    /\ Len(sent) = 1
    /\ sent[1].to = 2
    /\ ncalls = 2

\* C28: after any calls of CreateField, CreateFieldIfNotExists and DeleteField
\* on an open index, those that failed part-way included, the field
\* directories on disk are the names of the registry.
C28_DirectoriesAreTheRegistry ==
    HolderIndex("i") => dirs["i"] = DOMAIN fields["i"]

\* The messages sent so far that create or delete field f of index i.
SentAboutField ==
    SelectSeq(sent, LAMBDA m : /\ m.type \in {apiCreateField, apiDeleteField}
                               /\ m.index = "i"
                               /\ m.field = "f")

\* C30: once every call has returned, the last message sent about field f is
\* the last mutation of f on this node: f is in the registry when the message
\* creates it and is not when the message deletes it, so that a peer that
\* applies the messages in the order they were sent has f when this node has.
C30_BroadcastOrderIsLocalOrder ==
    ((\A t \in Threads : pc[t] = "idle") /\ Len(SentAboutField) > 0) =>
        (SentAboutField[Len(SentAboutField)].type = apiCreateField
            <=> HolderField("i", "f"))

\* A thread is at the registry of index i from the moment it has mu, or is
\* in Open's scan, until it returns; it writes when its method does.
AtRegistry(t) == pc[t] \in {"held", "body", "open"}

WritesRegistry(t) == AtRegistry(t) /\ call[t].method \in WriteMethods \cup {"Open"}

\* C25: no thread is at a write of the field registry of an index (in
\* CreateField, CreateFieldIfNotExists, DeleteField, Close or the registration
\* of Open) while another thread is at a read or a write of it.
C25_NoConcurrentRegistryWrite ==
    \A t \in Threads, u \in Threads :
        t # u => ~(WritesRegistry(t) /\ AtRegistry(u))

\* The returned calls that create field f, and those of them that are
\* CreateField.
CreateLog == SelectSeq(ilog, LAMBDA e : e.method \in CreateMethods)

CreateFieldLog == SelectSeq(ilog, LAMBDA e : e.method \in {"CreateField", apiCreateField})

Succeeded(log) == {j \in 1..Len(log) : log[j].err = Nil}

\* C26: of the CreateField calls for one name that have returned, at most one
\* has succeeded, and every one that returned after a creation of the name
\* succeeded has failed with ErrFieldExists; exactly one has succeeded when the
\* name was new, no call failed for another reason and no
\* CreateFieldIfNotExists made the field. With CreateFieldIfNotExists among
\* them, at most one Field has been constructed and registered, and every call
\* that succeeded returned the Field that is registered.
C26_OneFieldPerName ==
    /\ Cardinality(Succeeded(CreateFieldLog)) <= 1
    /\ \A j \in 1..Len(CreateLog), k \in 1..Len(CreateLog) :
         (j < k /\ CreateLog[j].err = Nil
                /\ CreateLog[k].method \in {"CreateField", apiCreateField})
            => CreateLog[k].err = ErrFieldExists
    /\ ( /\ Len(CreateFieldLog) > 0
         /\ \A j \in 1..Len(CreateLog) : CreateLog[j].err \in {Nil, ErrFieldExists}
         /\ \A j \in 1..Len(CreateLog) :
              CreateLog[j].made => CreateLog[j].method # "CreateFieldIfNotExists"
         /\ RegisteredObj("f") # <<0>> )
       => Cardinality(Succeeded(CreateFieldLog)) = 1
    /\ Cardinality({j \in 1..Len(CreateLog) : CreateLog[j].made}) <= 1
    /\ \A j \in 1..Len(CreateLog) :
         CreateLog[j].err = Nil => CreateLog[j].obj = RegisteredObj("f")

\* Two CreateField calls and a CreateFieldIfNotExists for the new name f have
\* returned: one created it, one found it there, one got the Field of the
\* first.
C26_Witness ==
    /\ Len(ilog) = 3
    /\ \E j \in 1..3, k \in 1..3, l \in 1..3 :
        /\ ilog[j].method = "CreateField" /\ ilog[j].err = Nil /\ ilog[j].made
        /\ ilog[k].method = "CreateField" /\ ilog[k].err = ErrFieldExists
        /\ ilog[l].method = "CreateFieldIfNotExists" /\ ilog[l].err = Nil
        /\ ilog[l].obj = ilog[j].obj
        /\ ilog[l].obj = <<ilog[j].id>>

\* C29: a handler that waits in SendSync holds no lock of the index, and a
\* call on the index that waits for the lock while every other thread is
\* idle or in a SendSync gets it.
C29_NoLockHeldInSendSync ==
    /\ \A t \in Threads : pc[t] = "send" => t \notin mu.w \cup mu.r
    /\ \A u \in Threads :
         (pc[u] = "lock" /\ \A t \in Threads \ {u} : pc[t] \in {"idle", "send"})
            => ENABLED (MuLock(u) \/ MuRLock(u))

\* While the handler CreateField waits in its SendSync, a DeleteField that
\* started after it has removed the field it created.
C29_Witness ==
    \E t \in Threads :
        /\ pc[t] = "send"
        /\ call[t].method = apiCreateField
        /\ call[t].obj = <<call[t].id>>
        /\ Len(ilog) = 2
        /\ ilog[2].method = "DeleteField"
        /\ ilog[2].id > call[t].id
        /\ ilog[2].err = Nil
        /\ "f" \notin DOMAIN fields["i"]

====
